---- MODULE Spec2Model ----
(***************************************************************************)
(* The CSV import/export core of strapi-plugin-csv-io:                     *)
(*   - InMemoryDocumentRepository (findMany, findFirst, create, update),   *)
(*   - DataImporter.import / processRecord / sanitizeRecord,               *)
(*   - DataExporter.export / fetchAllDocuments.                            *)
(*                                                                         *)
(* JavaScript values are modelled as strings.  An object is a function     *)
(* from its own keys to values; a missing key reads as Undefined.  A       *)
(* nullable document (findFirst's result) is a sequence of length 0 or 1.  *)
(***************************************************************************)
EXTENDS Integers, Sequences, FiniteSets, TLC

\* ------------------------------------------------------------------------
\* Bounds of the model
\* ------------------------------------------------------------------------

\* longest input file, in lines
MaxRecords == 2

\* number of repository calls the environment makes fail in one behaviour
MaxFaults == 1

\* export: collections of up to MaxPages full pages (and a little more)
MaxPages == 2

\* export: collection sizes within Slack of a multiple of PAGE_SIZE
Slack == 2

\* the direct write calls made on the repository before it is queried
MaxWrites == 1

\* the documents seeded into the repository at most
MaxSeeded == 3

\* the strategies registered, of both kinds together, at most
MaxRegistered == 3

\* ------------------------------------------------------------------------
\* Program constants and values
\* ------------------------------------------------------------------------

\* DataExporter.PAGE_SIZE
PAGE_SIZE == 500

\* JavaScript null and undefined
Null == "<null>"

Undefined == "<undefined>"

\* the collections addressed (contentType UIDs)
CT == "api::article.article"

OtherCT == "api::page.page"

ContentTypes == {CT, OtherCT}

\* obj[key] of JavaScript: undefined for a key the object does not have
Get(obj, key) == IF key \in DOMAIN obj THEN obj[key] ELSE Undefined

\* { ...a, ...b }
Spread(a, b) ==
  [k \in (DOMAIN a) \cup (DOMAIN b) |-> IF k \in DOMAIN b THEN b[k] ELSE a[k]]

\* {}
EmptyObject == [k \in {} |-> Undefined]

\* if (v) on a string-or-nullish value
Truthy(v) == v \notin {Undefined, Null, ""}

\* Array.prototype.slice(start, end) on a 1-indexed sequence
Slice(s, start, end) ==
  IF start >= Len(s) \/ end <= start THEN <<>>
  ELSE SubSeq(s, start + 1, IF end < Len(s) THEN end ELSE Len(s))

\* new Date().toISOString() at instant n
Iso(n) == "T" \o ToString(n)

\* ------------------------------------------------------------------------
\* DocumentQueryParams
\* ------------------------------------------------------------------------

NoPagination == [on |-> FALSE, page |-> 1, pageSize |-> 100]

Pagination(page, pageSize) == [on |-> TRUE, page |-> page, pageSize |-> pageSize]

\* a filter condition { $eq: v }
Eq(v) == [op |-> "$eq", value |-> v]

\* a filter condition given as the bare value v
Plain(v) == [op |-> "plain", value |-> v]

NoParams == [filters |-> EmptyObject, locale |-> Undefined, pagination |-> NoPagination]

\* ------------------------------------------------------------------------
\* InMemoryDocumentRepository: the store is, per contentType, a Map in
\* insertion order, modelled as a sequence of entries [key, doc].
\* ------------------------------------------------------------------------

EmptyStore == [ct \in ContentTypes |-> <<>>]

\* Array.from(map.values())
Values(entries) == [j \in 1..Len(entries) |-> entries[j].doc]

\* d.locale === params.locale || d.locale == null
MatchesLocale(d, locale) ==
  \/ Get(d, "locale") = locale
  \/ Get(d, "locale") \in {Null, Undefined}

\* one filter entry [key, condition] applied to document d
MatchesCondition(d, key, condition) ==
  IF condition.op = "$eq"
    THEN Get(d, key) = condition.value
    ELSE Get(d, key) = condition.value

\* MatchesFilters, with one satisfied filter entry being enough
MatchesFilters_AnyEntry(d, filters) ==
  \E key \in DOMAIN filters : MatchesCondition(d, key, filters[key])

MatchesFilters(d, filters) ==
  \A key \in DOMAIN filters : MatchesCondition(d, key, filters[key])

\* the locale and filter stages of findMany
Selected(st, contentType, params) ==
  LET all == Values(st[contentType])
      byLocale == IF Truthy(params.locale)
                    THEN SelectSeq(all, LAMBDA d : MatchesLocale(d, params.locale))
                    ELSE all
  IN  SelectSeq(byLocale, LAMBDA d : MatchesFilters(d, params.filters))

\* Paginate, with the page number taken as zero-based
Paginate_ZeroBased(docs, pagination) ==
  IF pagination.on
    THEN LET start == pagination.page * pagination.pageSize
         IN  Slice(docs, start, start + pagination.pageSize)
    ELSE docs

\* the pagination stage of findMany
Paginate(docs, pagination) ==
  IF pagination.on
    THEN LET start == (pagination.page - 1) * pagination.pageSize
         IN  Slice(docs, start, start + pagination.pageSize)
    ELSE docs

findMany(st, contentType, params) ==
  Paginate(Selected(st, contentType, params), params.pagination)

\* results[0] ?? null, as a sequence of at most one document
findFirst(st, contentType, params) ==
  LET results == findMany(st, contentType,
                          [params EXCEPT !.pagination = Pagination(1, 1)])
  IN  IF Len(results) = 0 THEN <<>> ELSE <<results[1]>>

\* Map.prototype.get, as a sequence of at most one document
MapGet(entries, key) ==
  LET hits == SelectSeq(entries, LAMBDA e : e.key = key)
  IN  IF Len(hits) = 0 THEN <<>> ELSE <<hits[1].doc>>

\* MapSet, with every set adding a new entry
MapSet_AlwaysAppend(entries, key, doc) == Append(entries, [key |-> key, doc |-> doc])

\* Map.prototype.set: an existing key keeps its position, a new one is appended
MapSet(entries, key, doc) ==
  IF \E j \in 1..Len(entries) : entries[j].key = key
    THEN [j \in 1..Len(entries) |->
            IF entries[j].key = key THEN [key |-> key, doc |-> doc] ELSE entries[j]]
    ELSE Append(entries, [key |-> key, doc |-> doc])

\* `doc-${++this.idCounter}`
DocId(n) == "doc-" \o ToString(n)

\* `seeded-${++this.idCounter}`
SeededId(n) == "seeded-" \o ToString(n)

\* the document create() builds, with idCounter already incremented to n
createDoc(n, now, data, locale) ==
  Spread([documentId |-> DocId(n),
          createdAt  |-> now,
          updatedAt  |-> now,
          locale     |-> IF locale \in {Undefined, Null} THEN Null ELSE locale],
         data)

\* create, resolving without storing the document
create_Discards(st, n, now, contentType, data, locale) == st

\* the store after create()
create(st, n, now, contentType, data, locale) ==
  [st EXCEPT ![contentType] =
     MapSet(st[contentType], DocId(n), createDoc(n, now, data, locale))]

\* the message of update()'s not-found error
NotFound(documentId) == "[InMemoryRepository] Document not found: " \o documentId

\* updateDoc, with the data spread over the identifier and the timestamp
updateDoc_DataLast(existing, now, documentId, data, locale) ==
  LET merged == Spread(Spread(existing, [documentId |-> documentId, updatedAt |-> now]),
                       data)
  IN  IF locale # Undefined THEN Spread(merged, [locale |-> locale]) ELSE merged

\* the document update() builds from the existing one
updateDoc(existing, now, documentId, data, locale) ==
  LET merged == Spread(Spread(existing, data),
                       [documentId |-> documentId, updatedAt |-> now])
  IN  IF locale # Undefined THEN Spread(merged, [locale |-> locale]) ELSE merged

\* the store after a successful update()
update(st, now, contentType, documentId, data, locale) ==
  [st EXCEPT ![contentType] =
     MapSet(st[contentType], documentId,
            updateDoc(MapGet(st[contentType], documentId)[1], now,
                      documentId, data, locale))]

\* ------------------------------------------------------------------------
\* Inputs: files, the import strategy, ProcessorOptions
\* ------------------------------------------------------------------------

\* the records a line of an input file can hold
RecordPool ==
  { [title |-> "A", slug |-> "a"],
    [title |-> "A2", slug |-> "a", documentId |-> "old-id",
     createdAt |-> "2024-01-01", updatedAt |-> "2024-01-02",
     publishedAt |-> "2024-01-03"],
    [title |-> "B", slug |-> "b", locale |-> "en"],
    [title |-> "N", slug |-> ""],
    [title |-> "M"],
    [title |-> "Z", slug |-> Null] }

\* what the strategy reports for a line that breaks the format's grammar
ParseDetails == {"Quote Not Closed"}

\* a line of an input file: a well-formed row, or a malformed one
Lines ==
  [ok : {TRUE}, record : RecordPool, detail : {""}] \cup
  [ok : {FALSE}, record : {EmptyObject}, detail : ParseDetails]

Files == UNION { [1..n -> Lines] : n \in 0..MaxRecords }

\* IImportStrategy.parse: all records of the input, or the failure of the
\* first malformed line and no record at all
strategyParse(rawData) ==
  LET bad == { j \in 1..Len(rawData) : ~rawData[j].ok }
  IN  IF bad = {}
        THEN [ok |-> TRUE, message |-> "",
              records |-> [j \in 1..Len(rawData) |-> rawData[j].record]]
        ELSE [ok |-> FALSE, records |-> <<>>,
              message |-> rawData[CHOOSE j \in bad : \A k \in bad : j <= k].detail]

ImportOptions ==
  [contentType : {CT}, locale : {Undefined, "ja"},
   idField : {Undefined, "slug"}, excludeFields : {{}}]

\* the messages of the failures the environment injects into repository calls
FaultMessages == {"DB write error"}

\* ------------------------------------------------------------------------
\* State
\* ------------------------------------------------------------------------

VARIABLES
  store,      \* InMemoryDocumentRepository.store
  idCounter,  \* InMemoryDocumentRepository.idCounter
  clock,      \* the instant of the last write (new Date())
  request,    \* the file and options the caller submits
  imp,        \* per import call in flight: the locals of DataImporter.import
  returned,   \* the results import has returned, in order
  calls,      \* every repository call made so far, in order
  exp,        \* the locals of DataExporter.export
  importStrategies,  \* StrategyRegistry.importStrategies
  exportStrategies,  \* StrategyRegistry.exportStrategies
  resolved,   \* the last resolveImport or resolveExport call and what it returned
  ctx,        \* the KoaContext of the request the controller handles
  logged      \* the calls of logger.error, in order

vars == <<store, idCounter, clock, request, imp, returned, calls, exp,
          importStrategies, exportStrategies, resolved, ctx, logged>>

\* the state of the controller
controllerVars == <<ctx, logged>>

\* the state of the StrategyRegistry and of its caller
registryVars == <<importStrategies, exportStrategies, resolved>>

\* new StrategyRegistry(), nothing resolved
EmptyRegistry ==
  /\ importStrategies = <<>>
  /\ exportStrategies = <<>>
  /\ resolved = <<>>

\* response.status, response.body and the headers before the controller
\* has written them
NoResponse == [status |-> 0, body |-> <<>>, headers |-> <<>>]

\* no request has reached the controller
NoRequest ==
  /\ ctx = [endpoint |-> "none", pc |-> "done", query |-> <<>>, body |-> <<>>,
            files |-> [present |-> FALSE, fields |-> <<>>],
            response |-> NoResponse, badRequest |-> <<>>, thrown |-> <<>>]
  /\ logged = <<>>

\* the callers that can have an import in flight
Procs == {"A", "B"}

\* const result: ImportResult = { created: 0, ... }
ZeroResult == [created |-> 0, updated |-> 0, skipped |-> 0, failed |-> 0, errors |-> <<>>]

NoOptions ==
  [contentType |-> CT, locale |-> Undefined, idField |-> Undefined, excludeFields |-> {}]

IdleImport ==
  [pc |-> "idle", rawData |-> <<>>, options |-> NoOptions, records |-> <<>>,
   i |-> 0, result |-> ZeroResult, data |-> EmptyObject, existing |-> <<>>,
   run |-> 0, before |-> EmptyStore]

IdleExport ==
  [pc |-> "idle", options |-> NoOptions, page |-> 1, collected |-> <<>>,
   formats |-> 0, result |-> <<>>, error |-> ""]

\* one entry of the log of repository calls
Call(by, run, row, op, contentType, params, documentId, data, locale, ok, ret, error) ==
  [by |-> by, run |-> run, row |-> row, op |-> op, contentType |-> contentType,
   params |-> params, documentId |-> documentId, data |-> data,
   locale |-> locale, ok |-> ok, ret |-> ret, error |-> error]

\* the environment may still make a repository call fail
MayFail == Cardinality({ j \in 1..Len(calls) : ~calls[j].ok }) < MaxFaults

\* ------------------------------------------------------------------------
\* DataImporter
\* ------------------------------------------------------------------------

STRAPI_INTERNAL_FIELDS == {"documentId", "createdAt", "updatedAt", "publishedAt"}

\* sanitizeRecord, with publishedAt missing from the set of internal fields
sanitizeRecord_KeepsPublishedAt(record) ==
  [k \in (DOMAIN record) \ {"documentId", "createdAt", "updatedAt"} |-> record[k]]

sanitizeRecord(record) ==
  [k \in (DOMAIN record) \ STRAPI_INTERNAL_FIELDS |-> record[k]]

\* the message import records for a failed parse
ParseFailureMessage(message) == "Failed to parse the file: " \o message

\* FirstCall, with the empty string not treated as a missing key
FirstCall_EmptyKeyLooksUp(record, options) ==
  IF ~Truthy(options.idField) THEN "create"
  ELSE IF Get(record, options.idField) \in {Undefined, Null} THEN "create"
  ELSE "findFirst"

\* the first await of processRecord: which repository call the record starts with
FirstCall(record, options) ==
  IF ~Truthy(options.idField) THEN "create"
  ELSE IF Get(record, options.idField) \in {Undefined, Null, ""} THEN "create"
  ELSE "findFirst"

\* SecondCall, with the existing document ignored
SecondCall_AlwaysCreate(existing) == "create"

\* the call after findFirst: if (existing) update else create
SecondCall(existing) == IF existing # <<>> THEN "update" ELSE "create"

\* FindParams, with the query left unscoped
FindParams_Unscoped(record, options) ==
  [filters |-> (options.idField :> Eq(record[options.idField])),
   locale |-> Undefined,
   pagination |-> NoPagination]

\* the params of processRecord's findFirst
FindParams(record, options) ==
  [filters |-> (options.idField :> Eq(record[options.idField])),
   locale |-> options.locale,
   pagination |-> NoPagination]

\* Counted, with the increment of `updated` forgotten
Counted_UpdateForgotten(result, op) ==
  IF op = "create" THEN [result EXCEPT !.created = @ + 1] ELSE result

\* result.created++ / result.updated++
Counted(result, op) ==
  IF op = "create" THEN [result EXCEPT !.created = @ + 1]
                   ELSE [result EXCEPT !.updated = @ + 1]

\* Caught, with rows counted from 1
Caught_OneBased(result, i, message) ==
  [result EXCEPT !.errors = Append(@, [row |-> i + 1, message |-> message]),
                 !.failed = @ + 1]

\* Caught, counting the failure without listing it
Caught_Unlisted(result, i, message) == [result EXCEPT !.failed = @ + 1]

\* the catch block of import's loop
Caught(result, i, message) ==
  [result EXCEPT !.errors = Append(@, [row |-> i, message |-> message]),
                 !.failed = @ + 1]

\* ParseCaught, reporting the failure on the first record instead of row -1
ParseCaught_FirstRow(result, message) ==
  [result EXCEPT !.errors = Append(@, [row |-> 0, message |-> ParseFailureMessage(message)]),
                 !.failed = 1]

\* the catch block of import's parse
ParseCaught(result, message) ==
  [result EXCEPT !.errors = Append(@, [row |-> -1, message |-> ParseFailureMessage(message)]),
                 !.failed = 1]

\* NextRecord, with the loop index advanced by two
NextRecord_SkipsOne(s, result) ==
  [s EXCEPT !.pc = "loop", !.i = @ + 2, !.result = result,
            !.data = EmptyObject, !.existing = <<>>]

\* import's local state once record i is finished with `result`
NextRecord(s, result) ==
  [s EXCEPT !.pc = "loop", !.i = @ + 1, !.result = result,
            !.data = EmptyObject, !.existing = <<>>]

\* what import hands back to its caller
Return(p, s, result, st) ==
  [by |-> p, run |-> s.run, rawData |-> s.rawData, options |-> s.options,
   result |-> result, before |-> s.before, after |-> st]

\* the import calls of one behaviour: the import of the file and its repetition
Runs == {1, 2}

\* the import calls made so far
Started == Len(returned) + Cardinality({q \in Procs : imp[q].pc # "idle"})

\* import() is called: the result is initialised and parse is awaited
importCall(p) ==
  /\ imp[p].pc = "idle"
  /\ Started + 1 \in Runs
  /\ imp' = [imp EXCEPT ![p] =
       [IdleImport EXCEPT !.pc = "parse", !.rawData = request.rawData,
                          !.options = request.options,
                          !.run = Started + 1, !.before = store]]
  /\ UNCHANGED <<store, idCounter, clock, request, returned, calls, exp,
                 registryVars, controllerVars>>

\* strategy.parse settles
importParse(p) ==
  /\ imp[p].pc = "parse"
  /\ LET parsed == strategyParse(imp[p].rawData)
     IN  IF parsed.ok
           THEN /\ imp' = [imp EXCEPT ![p].pc = "loop", ![p].records = parsed.records]
                /\ UNCHANGED returned
           ELSE /\ returned' = Append(returned,
                      Return(p, imp[p], ParseCaught(imp[p].result, parsed.message), store))
                /\ imp' = [imp EXCEPT ![p] = IdleImport]
  /\ UNCHANGED <<store, idCounter, clock, request, calls, exp, registryVars, controllerVars>>

\* the loop takes record i: processRecord up to its first repository call
processRecord(p) ==
  /\ imp[p].pc = "loop"
  /\ imp[p].i < Len(imp[p].records)
  /\ LET record == imp[p].records[imp[p].i + 1]
     IN  imp' = [imp EXCEPT ![p].pc = FirstCall(record, imp[p].options),
                            ![p].data = sanitizeRecord(record)]
  /\ UNCHANGED <<store, idCounter, clock, request, returned, calls, exp,
                 registryVars, controllerVars>>

\* processFindFirst, held back while another import is between its read and
\* its write
processFindFirst_Locked(p) ==
  /\ \A q \in Procs \ {p} : imp[q].pc \notin {"create", "update"}
  /\ imp[p].pc = "findFirst"
  /\ LET s == imp[p]
         params == FindParams(s.records[s.i + 1], s.options)
         found == findFirst(store, s.options.contentType, params)
     IN  \/ /\ imp' = [imp EXCEPT ![p].pc = SecondCall(found), ![p].existing = found]
            /\ calls' = Append(calls, Call(p, s.run, s.i, "findFirst", s.options.contentType,
                                          params, Undefined, EmptyObject, Undefined,
                                          TRUE, found, ""))
         \/ /\ MayFail
            /\ \E message \in FaultMessages :
                 /\ imp' = [imp EXCEPT ![p] = NextRecord(s, Caught(s.result, s.i, message))]
                 /\ calls' = Append(calls, Call(p, s.run, s.i, "findFirst", s.options.contentType,
                                               params, Undefined, EmptyObject, Undefined,
                                               FALSE, <<>>, message))
  /\ UNCHANGED <<store, idCounter, clock, request, returned, exp, registryVars,
                 controllerVars>>

\* await this.repository.findFirst(...)
processFindFirst(p) ==
  /\ imp[p].pc = "findFirst"
  /\ LET s == imp[p]
         params == FindParams(s.records[s.i + 1], s.options)
         found == findFirst(store, s.options.contentType, params)
     IN  \/ /\ imp' = [imp EXCEPT ![p].pc = SecondCall(found), ![p].existing = found]
            /\ calls' = Append(calls, Call(p, s.run, s.i, "findFirst", s.options.contentType,
                                          params, Undefined, EmptyObject, Undefined,
                                          TRUE, found, ""))
         \/ /\ MayFail
            /\ \E message \in FaultMessages :
                 /\ imp' = [imp EXCEPT ![p] = NextRecord(s, Caught(s.result, s.i, message))]
                 /\ calls' = Append(calls, Call(p, s.run, s.i, "findFirst", s.options.contentType,
                                               params, Undefined, EmptyObject, Undefined,
                                               FALSE, <<>>, message))
  /\ UNCHANGED <<store, idCounter, clock, request, returned, exp, registryVars,
                 controllerVars>>

\* await this.repository.create(contentType, data, locale)
processCreate(p) ==
  /\ imp[p].pc = "create"
  /\ LET s == imp[p]
         ct == s.options.contentType
         now == Iso(clock + 1)
     IN  \/ /\ store' = create(store, idCounter + 1, now, ct, s.data, s.options.locale)
            /\ idCounter' = idCounter + 1
            /\ clock' = clock + 1
            /\ imp' = [imp EXCEPT ![p] = NextRecord(s, Counted(s.result, "create"))]
            /\ calls' = Append(calls, Call(p, s.run, s.i, "create", ct, NoParams, Undefined,
                                          s.data, s.options.locale, TRUE,
                                          <<createDoc(idCounter + 1, now, s.data, s.options.locale)>>,
                                          ""))
         \/ /\ MayFail
            /\ \E message \in FaultMessages :
                 /\ imp' = [imp EXCEPT ![p] = NextRecord(s, Caught(s.result, s.i, message))]
                 /\ calls' = Append(calls, Call(p, s.run, s.i, "create", ct, NoParams, Undefined,
                                               s.data, s.options.locale, FALSE, <<>>, message))
            /\ UNCHANGED <<store, idCounter, clock>>
  /\ UNCHANGED <<request, returned, exp, registryVars, controllerVars>>

\* processUpdate, with a not-found failure ending the loop
processUpdate_AbortsOnNotFound(p) ==
  /\ imp[p].pc = "update"
  /\ LET s == imp[p]
         ct == s.options.contentType
         documentId == s.existing[1].documentId
         now == Iso(clock + 1)
     IN  \/ IF MapGet(store[ct], documentId) # <<>>
              THEN /\ store' = update(store, now, ct, documentId, s.data, s.options.locale)
                   /\ clock' = clock + 1
                   /\ imp' = [imp EXCEPT ![p] = NextRecord(s, Counted(s.result, "update"))]
                   /\ calls' = Append(calls, Call(p, s.run, s.i, "update", ct, NoParams, documentId,
                                                 s.data, s.options.locale, TRUE,
                                                 MapGet(store'[ct], documentId), ""))
                   /\ UNCHANGED idCounter
              ELSE /\ imp' = [imp EXCEPT ![p] =
                                [NextRecord(s, Caught(s.result, s.i, NotFound(documentId)))
                                   EXCEPT !.i = Len(s.records)]]
                   /\ calls' = Append(calls, Call(p, s.run, s.i, "update", ct, NoParams, documentId,
                                                 s.data, s.options.locale, FALSE, <<>>,
                                                 NotFound(documentId)))
                   /\ UNCHANGED <<store, idCounter, clock>>
         \/ /\ MayFail
            /\ \E message \in FaultMessages :
                 /\ imp' = [imp EXCEPT ![p] = NextRecord(s, Caught(s.result, s.i, message))]
                 /\ calls' = Append(calls, Call(p, s.run, s.i, "update", ct, NoParams, documentId,
                                               s.data, s.options.locale, FALSE, <<>>, message))
            /\ UNCHANGED <<store, idCounter, clock>>
  /\ UNCHANGED <<request, returned, exp, registryVars, controllerVars>>

\* await this.repository.update(contentType, existing.documentId, data, locale)
processUpdate(p) ==
  /\ imp[p].pc = "update"
  /\ LET s == imp[p]
         ct == s.options.contentType
         documentId == s.existing[1].documentId
         now == Iso(clock + 1)
     IN  \/ IF MapGet(store[ct], documentId) # <<>>
              THEN /\ store' = update(store, now, ct, documentId, s.data, s.options.locale)
                   /\ clock' = clock + 1
                   /\ imp' = [imp EXCEPT ![p] = NextRecord(s, Counted(s.result, "update"))]
                   /\ calls' = Append(calls, Call(p, s.run, s.i, "update", ct, NoParams, documentId,
                                                 s.data, s.options.locale, TRUE,
                                                 MapGet(store'[ct], documentId), ""))
                   /\ UNCHANGED idCounter
              ELSE /\ imp' = [imp EXCEPT ![p] =
                                NextRecord(s, Caught(s.result, s.i, NotFound(documentId)))]
                   /\ calls' = Append(calls, Call(p, s.run, s.i, "update", ct, NoParams, documentId,
                                                 s.data, s.options.locale, FALSE, <<>>,
                                                 NotFound(documentId)))
                   /\ UNCHANGED <<store, idCounter, clock>>
         \/ /\ MayFail
            /\ \E message \in FaultMessages :
                 /\ imp' = [imp EXCEPT ![p] = NextRecord(s, Caught(s.result, s.i, message))]
                 /\ calls' = Append(calls, Call(p, s.run, s.i, "update", ct, NoParams, documentId,
                                               s.data, s.options.locale, FALSE, <<>>, message))
            /\ UNCHANGED <<store, idCounter, clock>>
  /\ UNCHANGED <<request, returned, exp, registryVars, controllerVars>>

\* the loop is over: return result
importReturn(p) ==
  /\ imp[p].pc = "loop"
  /\ imp[p].i = Len(imp[p].records)
  /\ returned' = Append(returned, Return(p, imp[p], imp[p].result, store))
  /\ imp' = [imp EXCEPT ![p] = IdleImport]
  /\ UNCHANGED <<store, idCounter, clock, request, calls, exp, registryVars, controllerVars>>

importStep(p) ==
  \/ importCall(p)
  \/ importParse(p)
  \/ processRecord(p)
  \/ processFindFirst(p)
  \/ processCreate(p)
  \/ processUpdate(p)
  \/ importReturn(p)

\* ------------------------------------------------------------------------
\* Sequential imports: one caller submits the same file and options to a
\* fresh repository, one import after the other
\* ------------------------------------------------------------------------

Init ==
  /\ store = EmptyStore
  /\ idCounter = 0
  /\ clock = 0
  /\ request \in [rawData : Files, options : ImportOptions]
  /\ imp = [p \in Procs |-> IdleImport]
  /\ returned = <<>>
  /\ calls = <<>>
  /\ exp = IdleExport
  /\ EmptyRegistry
  /\ NoRequest

Next == importStep("A")

Spec == Init /\ [][Next]_vars

\* ------------------------------------------------------------------------
\* DataExporter and the export strategy
\* ------------------------------------------------------------------------

ExportOptions ==
  [contentType : {CT}, locale : {Undefined, "ja"}, idField : {Undefined},
   excludeFields : {{}, {"documentId", "createdAt"}}]

\* options.contentType.replace(/[^a-zA-Z0-9-_]/g, '_')
SanitizedName(contentType) ==
  IF contentType = CT THEN "api__article_article" ELSE "api__page_page"

\* a JS number, told apart from the string of its digits
Num(text) == "#" \o text

\* the cell texts that csv-parse's cast reads as numbers
NumericTexts == {"10"}

\* the strings with surrounding white space, and what trim leaves of them
Padded == (" A " :> "A")

\* resolve('') for no data: a text without header and rows
EmptyCsv == [columns |-> {}, rows |-> <<>>]

\* the text csv-stringify writes for one value: null and undefined become
\* the empty string (cast.object), a number its digits, a string itself
Cell(value) ==
  IF value \in {Null, Undefined} THEN ""
  ELSE IF \E t \in NumericTexts : value = Num(t)
    THEN CHOOSE t \in NumericTexts : value = Num(t)
    ELSE value

\* CsvExportStrategy.stringify with header: true and no columns option: the
\* header is the key list of the first record, and every record is written
\* under those columns (a key it lacks gives an empty cell, a key the first
\* record lacks is not written)
stringify(data) ==
  IF Len(data) = 0 THEN EmptyCsv
  ELSE [columns |-> DOMAIN data[1],
        rows |-> [j \in 1..Len(data) |->
                    [c \in DOMAIN data[1] |-> Cell(Get(data[j], c))]]]

\* IExportStrategy.format: the excluded fields are dropped from every
\* document and the rest is serialized
format(data, options, now) ==
  [data |-> stringify([j \in 1..Len(data) |->
               [k \in (DOMAIN data[j]) \ options.excludeFields |-> data[j][k]]]),
   mimeType |-> "text/csv; charset=utf-8",
   filename |-> "export_" \o SanitizedName(options.contentType) \o "_" \o now \o ".csv"]

\* csv-parse with trim: true and cast: true on one cell: white space is
\* trimmed, digits become a number, anything else stays a string
cast(text) ==
  LET trimmed == IF text \in DOMAIN Padded THEN Padded[text] ELSE text
  IN  IF trimmed \in NumericTexts THEN Num(trimmed) ELSE trimmed

\* CsvImportStrategy.parse with columns: true on a serialized text: one
\* record per row, keyed by the header
csvParse(csv) ==
  [j \in 1..Len(csv.rows) |-> [c \in csv.columns |-> cast(csv.rows[j][c])]]

\* a serialized text as an input file: every row is well-formed
CsvFile(csv) ==
  [j \in 1..Len(csv.rows) |-> [ok |-> TRUE, record |-> csvParse(csv)[j], detail |-> ""]]

\* PageParams, with the page numbers counted from 2
PageParams_SkipsPage(options, page) ==
  [filters |-> EmptyObject, locale |-> options.locale,
   pagination |-> Pagination(page + 1, PAGE_SIZE)]

\* the params of fetchAllDocuments' findMany for one page
PageParams(options, page) ==
  [filters |-> EmptyObject, locale |-> options.locale,
   pagination |-> Pagination(page, PAGE_SIZE)]

\* LastPage, with a full page taken for the last one
LastPage_Inclusive(batch) == Len(batch) <= PAGE_SIZE

\* if (batch.length < PAGE_SIZE) break
LastPage(batch) == Len(batch) < PAGE_SIZE

\* export() is called: fetchAllDocuments starts at page 1
exportCall ==
  /\ exp.pc = "idle"
  /\ exp' = [IdleExport EXCEPT !.pc = "fetch", !.options = request.options]
  /\ UNCHANGED <<store, idCounter, clock, request, imp, returned, calls,
                 registryVars, controllerVars>>

\* exportFetch, with a failed findMany taken for an empty last page
exportFetch_SwallowError ==
  /\ exp.pc = "fetch"
  /\ LET ct == exp.options.contentType
         params == PageParams(exp.options, exp.page)
         batch == findMany(store, ct, params)
     IN  \/ /\ exp' = [exp EXCEPT !.collected = @ \o batch,
                                  !.pc = IF LastPage(batch) THEN "format" ELSE "fetch",
                                  !.page = IF LastPage(batch) THEN @ ELSE @ + 1]
            /\ calls' = Append(calls, Call("export", 0, -1, "findMany", ct, params, Undefined,
                                          EmptyObject, Undefined, TRUE, batch, ""))
         \/ /\ MayFail
            /\ \E message \in FaultMessages :
                 /\ exp' = [exp EXCEPT !.pc = "format"]
                 /\ calls' = Append(calls, Call("export", 0, -1, "findMany", ct, params, Undefined,
                                               EmptyObject, Undefined, FALSE, <<>>, message))
  /\ UNCHANGED <<store, idCounter, clock, request, imp, returned, registryVars,
                 controllerVars>>

\* exportFetch, with the promise of a full page never settling
exportFetch_Stalls ==
  /\ exp.pc = "fetch"
  /\ LET ct == exp.options.contentType
         params == PageParams(exp.options, exp.page)
         batch == findMany(store, ct, params)
     IN  /\ LastPage(batch)
         /\ exp' = [exp EXCEPT !.collected = @ \o batch, !.pc = "format"]
         /\ calls' = Append(calls, Call("export", 0, -1, "findMany", ct, params, Undefined,
                                       EmptyObject, Undefined, TRUE, batch, ""))
  /\ UNCHANGED <<store, idCounter, clock, request, imp, returned, registryVars,
                 controllerVars>>

\* one iteration of fetchAllDocuments' loop: await this.repository.findMany(...)
exportFetch ==
  /\ exp.pc = "fetch"
  /\ LET ct == exp.options.contentType
         params == PageParams(exp.options, exp.page)
         batch == findMany(store, ct, params)
     IN  \/ /\ exp' = [exp EXCEPT !.collected = @ \o batch,
                                  !.pc = IF LastPage(batch) THEN "format" ELSE "fetch",
                                  !.page = IF LastPage(batch) THEN @ ELSE @ + 1]
            /\ calls' = Append(calls, Call("export", 0, -1, "findMany", ct, params, Undefined,
                                          EmptyObject, Undefined, TRUE, batch, ""))
         \/ /\ MayFail
            /\ \E message \in FaultMessages :
                 /\ exp' = [exp EXCEPT !.pc = "threw", !.error = message]
                 /\ calls' = Append(calls, Call("export", 0, -1, "findMany", ct, params, Undefined,
                                               EmptyObject, Undefined, FALSE, <<>>, message))
  /\ UNCHANGED <<store, idCounter, clock, request, imp, returned, registryVars,
                 controllerVars>>

\* return strategy.format(allDocuments, options)
exportFormat ==
  /\ exp.pc = "format"
  /\ exp' = [exp EXCEPT !.pc = "returned", !.formats = @ + 1,
                        !.result = <<format(exp.collected, exp.options, Iso(clock))>>]
  /\ UNCHANGED <<store, idCounter, clock, request, imp, returned, calls,
                 registryVars, controllerVars>>

\* ------------------------------------------------------------------------
\* One export of a seeded collection that nothing mutates
\* ------------------------------------------------------------------------

\* the data of the k-th seeded document; in a "mixed" collection the first
\* document of every page-sized block is English, the even ones Japanese
SeedData(k, pattern) ==
  LET base == [title |-> "Article " \o ToString(k), slug |-> "article-" \o ToString(k)]
  IN  IF pattern = "plain" THEN base
      ELSE IF pattern = "stamped"
        THEN Spread(base, [createdAt |-> "2023-12-31", updatedAt |-> "2023-12-31"])
      ELSE IF k % PAGE_SIZE = 1 THEN Spread(base, [locale |-> "en"])
      ELSE IF k % 2 = 0 THEN Spread(base, [locale |-> "ja"])
      ELSE Spread(base, [locale |-> Null])

\* the Map after seed(contentType, docs) of n documents on a fresh repository
seed(n, pattern) ==
  [k \in 1..n |-> [key |-> SeededId(k),
                   doc |-> Spread([documentId |-> SeededId(k)], SeedData(k, pattern))]]

\* collection sizes at and around the page boundaries
Sizes ==
  { n \in 0..(MaxPages * PAGE_SIZE + Slack) :
      \E k \in 0..MaxPages : n - k * PAGE_SIZE \in (0 - Slack)..Slack }

InitExport ==
  /\ \E n \in Sizes, pattern \in {"plain", "mixed"} :
       /\ store = [EmptyStore EXCEPT ![CT] = seed(n, pattern)]
       /\ idCounter = n
  /\ clock = 0
  /\ request \in [rawData : {<<>>}, options : ExportOptions]
  /\ imp = [p \in Procs |-> IdleImport]
  /\ returned = <<>>
  /\ calls = <<>>
  /\ exp = IdleExport
  /\ EmptyRegistry
  /\ NoRequest

NextExport ==
  \/ exportCall
  \/ exportFetch
  \/ exportFormat

SpecExport == InitExport /\ [][NextExport]_vars

\* collection sizes at the page boundaries and next to them
BoundarySizes ==
  { n \in 0..(MaxPages * PAGE_SIZE + 1) :
      \E k \in 0..MaxPages : n - k * PAGE_SIZE \in {0 - 1, 0, 1} }

InitExportFair ==
  /\ \E n \in BoundarySizes, pattern \in {"plain", "mixed"} :
       /\ store = [EmptyStore EXCEPT ![CT] = seed(n, pattern)]
       /\ idCounter = n
  /\ clock = 0
  /\ request \in [rawData : {<<>>}, options : ExportOptions]
  /\ imp = [p \in Procs |-> IdleImport]
  /\ returned = <<>>
  /\ calls = <<>>
  /\ exp = IdleExport
  /\ EmptyRegistry
  /\ NoRequest

\* the same export under the event loop's scheduling: a findMany promise
\* settles and the loop resumes, the format promise settles and export
\* returns
SpecExportFair ==
  /\ InitExportFair
  /\ [][NextExport]_vars
  /\ WF_vars(exportFetch)
  /\ WF_vars(exportFormat)

\* ------------------------------------------------------------------------
\* Concurrent imports: two callers submit the file and options to the same
\* repository; their awaits interleave, and the store may be cleared
\* ------------------------------------------------------------------------

\* clear(): the store is emptied and the id counter reset
clear ==
  /\ store # EmptyStore
  /\ store' = EmptyStore
  /\ idCounter' = 0
  /\ UNCHANGED <<clock, request, imp, returned, calls, exp, registryVars, controllerVars>>

\* a well-formed line holding the record
Row(record) == [ok |-> TRUE, record |-> record, detail |-> ""]

\* the files submitted concurrently: their records share the key "a", repeat
\* it, or come with a record of another key or of none
ConcurrentFiles ==
  { <<Row([title |-> "A", slug |-> "a"])>>,
    <<Row([title |-> "A", slug |-> "a"]),
      Row([title |-> "A2", slug |-> "a", documentId |-> "old-id",
           createdAt |-> "2024-01-01", updatedAt |-> "2024-01-02",
           publishedAt |-> "2024-01-03"])>>,
    <<Row([title |-> "A", slug |-> "a"]), Row([title |-> "B", slug |-> "b", locale |-> "en"])>>,
    <<Row([title |-> "M"]), Row([title |-> "A", slug |-> "a"])>> }

ConcurrentOptions ==
  [contentType : {CT}, locale : {Undefined}, idField : {"slug"}, excludeFields : {{}}]

InitConcurrent ==
  /\ store = EmptyStore
  /\ idCounter = 0
  /\ clock = 0
  /\ request \in [rawData : ConcurrentFiles, options : ConcurrentOptions]
  /\ imp = [p \in Procs |-> IdleImport]
  /\ returned = <<>>
  /\ calls = <<>>
  /\ exp = IdleExport
  /\ EmptyRegistry
  /\ NoRequest

NextConcurrent ==
  \/ importStep("A")
  \/ importStep("B")
  \/ clear

SpecConcurrent == InitConcurrent /\ [][NextConcurrent]_vars

\* ------------------------------------------------------------------------
\* The repository on its own: a seeded repository takes direct create and
\* update calls and is then queried, page after page
\* ------------------------------------------------------------------------

\* the data of direct create calls: plain, carrying identifier and
\* timestamp fields of the caller's, carrying a locale
RepoData ==
  { [title |-> "A", slug |-> "a"],
    [title |-> "A2", slug |-> "a", documentId |-> "old-id",
     createdAt |-> "2024-01-01", updatedAt |-> "2024-01-02"],
    [title |-> "B", slug |-> "b", locale |-> "en"] }

\* the data and locale of direct update calls
RepoPatches ==
  { [data |-> [title |-> "X"], locale |-> Undefined],
    [data |-> [slug |-> "a", views |-> Num("10"), locale |-> "en"], locale |-> "ja"],
    [data |-> [title |-> "Y", documentId |-> "old-id", updatedAt |-> "2024-01-02",
               locale |-> "en"],
     locale |-> Undefined] }

\* the documentIds direct update calls address
RepoIds == {SeededId(1), DocId(2), DocId(9)}

\* the queries: filters in both accepted forms, with and without a locale
\* and pagination
RepoQueries ==
  [filters : { EmptyObject,
               "slug" :> Eq("a"),
               "locale" :> Plain(Null),
               ("slug" :> Plain("a")) @@ ("title" :> Eq("A")) },
   locale : {Undefined, "", "ja"},
   pagination : {NoPagination, Pagination(1, 1), Pagination(1, 2)}]

\* the positions in the log of the direct calls of the given operations
Direct(ops) ==
  { j \in 1..Len(calls) : calls[j].by = "test" /\ calls[j].op \in ops }

\* the writes are done before the first query
Writing ==
  /\ Direct({"findMany", "findFirst"}) = {}
  /\ Cardinality(Direct({"create", "update"})) < MaxWrites

\* repository.create(contentType, data, locale), called directly
repoCreate ==
  /\ Writing
  /\ \E ct \in ContentTypes, data \in RepoData, locale \in {Undefined, "ja"} :
       /\ ct = OtherCT => data = [title |-> "A", slug |-> "a"] /\ locale = Undefined
       /\ store' = create(store, idCounter + 1, Iso(clock + 1), ct, data, locale)
       /\ idCounter' = idCounter + 1
       /\ clock' = clock + 1
       /\ calls' = Append(calls, Call("test", 0, -1, "create", ct, NoParams, Undefined,
                                     data, locale, TRUE,
                                     <<createDoc(idCounter + 1, Iso(clock + 1), data, locale)>>,
                                     ""))
  /\ UNCHANGED <<request, imp, returned, exp, registryVars, controllerVars>>

\* repository.update(contentType, documentId, data, locale), called directly
repoUpdate ==
  /\ Writing
  /\ \E ct \in ContentTypes, documentId \in RepoIds, patch \in RepoPatches :
       /\ ct = OtherCT => documentId = SeededId(1) /\ patch.locale = "ja"
       /\ IF MapGet(store[ct], documentId) # <<>>
           THEN /\ store' = update(store, Iso(clock + 1), ct, documentId,
                                   patch.data, patch.locale)
                /\ clock' = clock + 1
                /\ calls' = Append(calls, Call("test", 0, -1, "update", ct, NoParams,
                                              documentId, patch.data, patch.locale, TRUE,
                                              MapGet(store'[ct], documentId), ""))
           ELSE /\ calls' = Append(calls, Call("test", 0, -1, "update", ct, NoParams,
                                              documentId, patch.data, patch.locale, FALSE,
                                              <<>>, NotFound(documentId)))
                /\ UNCHANGED <<store, clock>>
  /\ UNCHANGED <<idCounter, request, imp, returned, exp, registryVars, controllerVars>>

\* the query of the behaviour, asked for its next page
NextQuery ==
  [request.options EXCEPT
     !.pagination.page = Cardinality(Direct({"findMany"})) + 1]

\* the last page read was short of pageSize, or the query is not paginated
PagesDone ==
  LET reads == Direct({"findMany"})
  IN  /\ reads # {}
      /\ LET last == CHOOSE j \in reads : \A k \in reads : k <= j
         IN  \/ ~request.options.pagination.on
             \/ Len(calls[last].ret) < request.options.pagination.pageSize

\* repository.findMany(contentType, params), called directly for the pages
\* 1, 2, 3, ... of the query
repoFindMany ==
  /\ ~PagesDone
  /\ calls' = Append(calls, Call("test", 0, -1, "findMany", CT, NextQuery, Undefined,
                                EmptyObject, Undefined, TRUE,
                                findMany(store, CT, NextQuery), ""))
  /\ UNCHANGED <<store, idCounter, clock, request, imp, returned, exp, registryVars,
                 controllerVars>>

\* repository.findFirst(contentType, params), called directly after the pages
\* with the query of the behaviour, also asking for its second page
repoFindFirst ==
  /\ PagesDone
  /\ Direct({"findFirst"}) = {}
  /\ \E ct \in ContentTypes, page \in {1, 2} :
       LET params == [request.options EXCEPT !.pagination.page = page]
       IN  /\ page = 2 => request.options.pagination.on
           /\ calls' = Append(calls, Call("test", 0, -1, "findFirst", ct, params, Undefined,
                                          EmptyObject, Undefined, TRUE,
                                          findFirst(store, ct, params), ""))
  /\ UNCHANGED <<store, idCounter, clock, request, imp, returned, exp, registryVars,
                 controllerVars>>

InitRepo ==
  /\ \E n \in 0..MaxSeeded, pattern \in {"stamped", "mixed"} :
       /\ store = [EmptyStore EXCEPT ![CT] = seed(n, pattern)]
       /\ idCounter = n
  /\ clock = 0
  /\ request \in [rawData : {<<>>}, options : RepoQueries]
  /\ imp = [p \in Procs |-> IdleImport]
  /\ returned = <<>>
  /\ calls = <<>>
  /\ exp = IdleExport
  /\ EmptyRegistry
  /\ NoRequest

NextRepo ==
  \/ repoCreate
  \/ repoUpdate
  \/ repoFindMany
  \/ repoFindFirst

SpecRepo == InitRepo /\ [][NextRepo]_vars

\* ------------------------------------------------------------------------
\* CsvController, RequestValidator, ResponseBuilder. The messages of the
\* validation errors and of ctx.throw are given in English
\* ------------------------------------------------------------------------

\* ALLOWED_MIME_TYPES, with images and files of no type let through
ALLOWED_MIME_TYPES_AnyType ==
  {"text/csv", "application/csv", "application/octet-stream", "image/png", ""}

ALLOWED_MIME_TYPES == {"text/csv", "application/csv", "application/octet-stream"}

MAX_FILE_SIZE_BYTES == 10 * 1024 * 1024

\* a query value that is an array, by its first element
Arr(first) == "[" \o first

\* the first elements of the array values that occur
ArrayFirsts == {CT}

\* const value = query[key]; return Array.isArray(value) ? value[0] : value
getQueryString(query, key) ==
  LET value == Get(query, key)
  IN  IF \E first \in ArrayFirsts : value = Arr(first)
        THEN CHOOSE first \in ArrayFirsts : value = Arr(first)
        ELSE value

\* typeof v === 'string'
IsString(v) == v \notin {Undefined, Null} /\ \A t \in NumericTexts : v # Num(t)

\* getQueryString(ctx.query, 'contentType') ?? (the body's contentType, when
\* it is a string)
extractContentType(c) ==
  LET fromQuery == getQueryString(c.query, "contentType")
      fromBody == Get(c.body, "contentType")
  IN  IF fromQuery \notin {Undefined, Null} THEN fromQuery
      ELSE IF IsString(fromBody) THEN fromBody
      ELSE Undefined

\* excludeFieldsRaw.split(',').map((f) => f.trim()).filter(Boolean), for the
\* raw values that occur
SplitFields ==
  ("documentId, createdAt" :> {"documentId", "createdAt"}) @@ (" , " :> {})

\* ProcessorOptions.excludeFields left undefined is the empty list
buildProcessorOptions(c, contentType) ==
  LET excludeFieldsRaw == getQueryString(c.query, "excludeFields")
  IN  [contentType |-> contentType,
       locale |-> getQueryString(c.query, "locale"),
       idField |-> getQueryString(c.query, "idField"),
       excludeFields |-> IF Truthy(excludeFieldsRaw)
                           THEN SplitFields[excludeFieldsRaw] ELSE {}]

\* files['files'] ?? files['file'] ?? files['csv'], as a sequence of at most
\* one value
UploadedFile(files) ==
  IF "files" \in DOMAIN files.fields THEN <<files.fields["files"]>>
  ELSE IF "file" \in DOMAIN files.fields THEN <<files.fields["file"]>>
  ELSE IF "csv" \in DOMAIN files.fields THEN <<files.fields["csv"]>>
  ELSE <<>>

Failure(message) == [ok |-> FALSE, message |-> message, value |-> <<>>]

Success(value) == [ok |-> TRUE, message |-> "", value |-> <<value>>]

extractUploadedFile(c) ==
  IF ~c.files.present THEN Failure("no file was uploaded")
  ELSE IF UploadedFile(c.files) = <<>>
    THEN Failure("use the form field files, file or csv")
  ELSE IF Len(UploadedFile(c.files)[1].items) = 0 THEN Failure("the file is empty")
  ELSE Success(UploadedFile(c.files)[1].items[1])

\* readFileBuffer: the contents, or null when readFileSync throws
readFileBuffer(file) == IF file.readable THEN <<file.content>> ELSE <<>>

validateImportRequest(c) ==
  LET contentType == extractContentType(c)
      fileValidation == extractUploadedFile(c)
  IN  IF ~Truthy(contentType) THEN Failure("contentType is required")
      ELSE IF ~fileValidation.ok THEN fileValidation
      ELSE LET file == fileValidation.value[1]
               mimeType == IF file.mimetype \in {Undefined, Null} THEN "" ELSE file.mimetype
           IN  IF mimeType \notin ALLOWED_MIME_TYPES
                 THEN Failure("file type not allowed: " \o mimeType)
               ELSE IF file.size > MAX_FILE_SIZE_BYTES
                 THEN Failure("file size above the limit")
               ELSE IF readFileBuffer(file) = <<>>
                 THEN Failure("reading the file failed")
               ELSE Success([fileBuffer |-> readFileBuffer(file)[1],
                             options |-> buildProcessorOptions(c, contentType)])

validateExportRequest(c) ==
  LET contentType == extractContentType(c)
  IN  IF ~Truthy(contentType) THEN Failure("contentType is required")
      ELSE Success([options |-> buildProcessorOptions(c, contentType)])

\* result.created + result.updated + result.skipped + result.failed
Total(result) == result.created + result.updated + result.skipped + result.failed

\* buildImportSuccess, with 207 kept for the case that nothing succeeded
buildImportSuccess_AllFailed(result) ==
  LET hasErrors == result.failed > 0 /\ result.created + result.updated = 0
  IN  [status |-> IF hasErrors THEN 207 ELSE 200,
       body |-> <<[data |-> [created |-> result.created, updated |-> result.updated,
                            skipped |-> result.skipped, failed |-> result.failed],
                   errors |-> IF hasErrors THEN <<result.errors>> ELSE <<>>,
                   meta |-> [total |-> Total(result)]]>>,
       headers |-> <<>>]

\* ResponseBuilder.buildImportSuccess: the response it writes
buildImportSuccess(result) ==
  LET hasErrors == result.failed > 0
  IN  [status |-> IF hasErrors THEN 207 ELSE 200,
       body |-> <<[data |-> [created |-> result.created, updated |-> result.updated,
                            skipped |-> result.skipped, failed |-> result.failed],
                   errors |-> IF hasErrors THEN <<result.errors>> ELSE <<>>,
                   meta |-> [total |-> Total(result)]]>>,
       headers |-> <<>>]

\* ResponseBuilder.buildExportSuccess: the response it writes
buildExportSuccess(result) ==
  [status |-> 200,
   body |-> <<result.data>>,
   headers |-> << <<"Content-Type", result.mimeType>>,
                  <<"Content-Disposition", "attachment; filename=" \o result.filename>>,
                  <<"Cache-Control", "no-store">> >>]

\* the values a rejected importCsv is caught with: Errors and one value that
\* is not an Error
Rejections ==
  { [isError |-> TRUE, message |-> "Unexpected DB failure"],
    [isError |-> FALSE, message |-> "" ] }

\* err instanceof Error ? err.message : the default message
MessageOf(err) == IF err.isError THEN err.message ELSE "an unexpected error occurred"

\* the controller has a request in hand and has not yet called the service
Received(endpoint) == ctx.endpoint = endpoint /\ ctx.pc = "received"

\* the controller awaits the service
Awaiting(endpoint) == ctx.endpoint = endpoint /\ ctx.pc = "awaiting"

\* buildValidationError: ctx.badRequest(message, details), which throws
Rejected(message) ==
  /\ ctx' = [ctx EXCEPT !.pc = "done", !.badRequest = <<message>>]
  /\ UNCHANGED <<store, idCounter, clock, request, imp, returned, calls, exp,
                 registryVars, logged>>

\* the catch block: logger.error(prefix, err), then ctx.throw(500, message)
Caught500(prefix, err, message) ==
  /\ logged' = Append(logged, [message |-> prefix, err |-> err])
  /\ ctx' = [ctx EXCEPT !.pc = "done",
                        !.thrown = <<[status |-> 500, message |-> message]>>]

\* CsvController.import, up to the await of importCsv: validation, then
\* importCsv -> DataImporter.import, which initialises the result and awaits
\* strategy.parse
controllerImport ==
  /\ Received("import")
  /\ LET validation == validateImportRequest(ctx)
     IN  IF ~validation.ok THEN Rejected(validation.message)
         ELSE /\ imp["A"].pc = "idle"
              /\ request' = [rawData |-> validation.value[1].fileBuffer,
                             options |-> validation.value[1].options]
              /\ imp' = [imp EXCEPT !["A"] =
                   [IdleImport EXCEPT !.pc = "parse",
                                      !.rawData = validation.value[1].fileBuffer,
                                      !.options = validation.value[1].options,
                                      !.run = Started + 1, !.before = store]]
              /\ ctx' = [ctx EXCEPT !.pc = "awaiting"]
              /\ UNCHANGED <<store, idCounter, clock, returned, calls, exp,
                             registryVars, logged>>

\* importCsv has resolved: buildImportSuccess
controllerImportResolved ==
  /\ Awaiting("import")
  /\ imp["A"].pc = "idle"
  /\ Len(returned) = 1
  /\ ctx' = [ctx EXCEPT !.pc = "done",
                        !.response = buildImportSuccess(returned[1].result)]
  /\ UNCHANGED <<store, idCounter, clock, request, imp, returned, calls, exp,
                 registryVars, logged>>

\* importCsv has rejected, as a service other than CsvIoService over
\* DataImporter can: the catch block
controllerImportRejected ==
  /\ Awaiting("import")
  /\ imp["A"].pc = "parse"
  /\ \E err \in Rejections :
       Caught500("[csv-import-export] Import failed:", err,
                 "error during the import: " \o MessageOf(err))
  /\ imp' = [imp EXCEPT !["A"] = IdleImport]
  /\ UNCHANGED <<store, idCounter, clock, request, returned, calls, exp, registryVars>>

\* CsvController.export, up to the await of exportCsv: validation, then
\* exportCsv -> DataExporter.export, which awaits the first page
controllerExport ==
  /\ Received("export")
  /\ LET validation == validateExportRequest(ctx)
     IN  IF ~validation.ok THEN Rejected(validation.message)
         ELSE /\ exp.pc = "idle"
              /\ request' = [rawData |-> <<>>, options |-> validation.value[1].options]
              /\ exp' = [IdleExport EXCEPT !.pc = "fetch",
                                           !.options = validation.value[1].options]
              /\ ctx' = [ctx EXCEPT !.pc = "awaiting"]
              /\ UNCHANGED <<store, idCounter, clock, imp, returned, calls,
                             registryVars, logged>>

\* exportCsv has resolved: buildExportSuccess
controllerExportResolved ==
  /\ Awaiting("export")
  /\ exp.pc = "returned"
  /\ ctx' = [ctx EXCEPT !.pc = "done", !.response = buildExportSuccess(exp.result[1])]
  /\ UNCHANGED <<store, idCounter, clock, request, imp, returned, calls, exp,
                 registryVars, logged>>

\* exportCsv has rejected: the catch block
controllerExportRejected ==
  /\ Awaiting("export")
  /\ exp.pc = "threw"
  /\ LET err == [isError |-> TRUE, message |-> exp.error]
     IN  Caught500("[csv-import-export] Export failed:", err,
                   "error during the export: " \o MessageOf(err))
  /\ UNCHANGED <<store, idCounter, clock, request, imp, returned, calls, exp, registryVars>>

\* the files that get uploaded
UploadedFiles ==
  LET csv == [mimetype |-> "text/csv", size |-> 100, readable |-> TRUE,
              content |-> <<Row([title |-> "A", slug |-> "a"])>>]
  IN  { csv,
        [csv EXCEPT !.content = <<Row([title |-> "A", slug |-> "a"]),
                                  Row([title |-> "A2", slug |-> "a"])>>],
        [csv EXCEPT !.content = <<[ok |-> FALSE, record |-> EmptyObject,
                                   detail |-> "Quote Not Closed"]>>],
        [csv EXCEPT !.mimetype = "application/octet-stream",
                    !.size = MAX_FILE_SIZE_BYTES],
        [csv EXCEPT !.size = MAX_FILE_SIZE_BYTES + 1],
        [csv EXCEPT !.mimetype = "image/png"],
        [csv EXCEPT !.mimetype = Undefined],
        [csv EXCEPT !.readable = FALSE] }

\* ctx.request.files: missing, without a known field, with an empty array,
\* with one file under one of the three fields, alone or in an array, and
\* with a second field that has no say
Uploads ==
  {[present |-> FALSE, fields |-> <<>>],
   [present |-> TRUE, fields |-> ("upload" :> [array |-> FALSE, items |-> <<>>])],
   [present |-> TRUE, fields |-> ("files" :> [array |-> TRUE, items |-> <<>>])]}
  \cup { [present |-> TRUE, fields |-> ("files" :> [array |-> FALSE, items |-> <<f>>])] :
           f \in UploadedFiles }
  \cup { [present |-> TRUE,
          fields |-> ("csv" :> [array |-> TRUE, items |-> <<f, g>>])
                       @@ ("file" :> [array |-> FALSE, items |-> <<g>>])] :
           f \in {g \in UploadedFiles : g.readable /\ g.size = 100},
           g \in {g \in UploadedFiles : g.mimetype = "image/png"} }

\* the query strings of import requests
ImportQueries ==
  { [k \in keys |-> q[k]] :
      keys \in {{}, {"contentType"}, {"contentType", "idField"}},
      q \in [contentType : {"", CT, Arr(CT)}, idField : {"slug"}] }

\* the query strings of export requests
ExportQueries ==
  { [k \in keys |-> q[k]] :
      keys \in {{}, {"contentType", "locale", "excludeFields"}},
      q \in [contentType : {CT}, locale : {"ja"},
             excludeFields : {"", " , ", "documentId, createdAt"}] }

\* the request bodies
Bodies == {EmptyObject, [contentType |-> CT], [contentType |-> Num("10")]}

InitController ==
  /\ \E n \in {0, 2} :
       /\ store = [EmptyStore EXCEPT ![CT] = seed(n, "mixed")]
       /\ idCounter = n
  /\ clock = 0
  /\ request = [rawData |-> <<>>, options |-> NoOptions]
  /\ imp = [p \in Procs |-> IdleImport]
  /\ returned = <<>>
  /\ calls = <<>>
  /\ exp = IdleExport
  /\ EmptyRegistry
  /\ logged = <<>>
  /\ \E endpoint \in {"import", "export"}, body \in Bodies :
       \E query \in (IF endpoint = "import" THEN ImportQueries ELSE ExportQueries),
          files \in (IF endpoint = "import" THEN Uploads
                     ELSE {[present |-> FALSE, fields |-> <<>>]}) :
         ctx = [endpoint |-> endpoint, pc |-> "received", query |-> query,
                body |-> body, files |-> files, response |-> NoResponse,
                badRequest |-> <<>>, thrown |-> <<>>]

NextController ==
  \/ controllerImport
  \/ importParse("A")
  \/ processRecord("A")
  \/ processFindFirst("A")
  \/ processCreate("A")
  \/ processUpdate("A")
  \/ importReturn("A")
  \/ controllerImportResolved
  \/ controllerImportRejected
  \/ controllerExport
  \/ exportFetch
  \/ exportFormat
  \/ controllerExportResolved
  \/ controllerExportRejected

SpecController == InitController /\ [][NextController]_vars

\* ------------------------------------------------------------------------
\* StrategyRegistry. A string is a sequence of characters, so that
\* toLowerCase and trim are computed
\* ------------------------------------------------------------------------

UpperCase ==
  <<"A", "B", "C", "D", "E", "F", "G", "H", "I", "J", "K", "L", "M",
    "N", "O", "P", "Q", "R", "S", "T", "U", "V", "W", "X", "Y", "Z">>

LowerCase ==
  <<"a", "b", "c", "d", "e", "f", "g", "h", "i", "j", "k", "l", "m",
    "n", "o", "p", "q", "r", "s", "t", "u", "v", "w", "x", "y", "z">>

\* the characters String.prototype.trim removes
WhiteSpace == {" ", "\t", "\n"}

\* String.prototype.toLowerCase
toLowerCase(text) ==
  [i \in 1..Len(text) |->
     IF \E n \in 1..Len(UpperCase) : UpperCase[n] = text[i]
       THEN LowerCase[CHOOSE n \in 1..Len(UpperCase) : UpperCase[n] = text[i]]
       ELSE text[i]]

\* String.prototype.toUpperCase
toUpperCase(text) ==
  [i \in 1..Len(text) |->
     IF \E n \in 1..Len(LowerCase) : LowerCase[n] = text[i]
       THEN UpperCase[CHOOSE n \in 1..Len(LowerCase) : LowerCase[n] = text[i]]
       ELSE text[i]]

RECURSIVE trimStart(_)
trimStart(text) ==
  IF Len(text) > 0 /\ text[1] \in WhiteSpace THEN trimStart(Tail(text)) ELSE text

RECURSIVE trimEnd(_)
trimEnd(text) ==
  IF Len(text) > 0 /\ text[Len(text)] \in WhiteSpace
    THEN trimEnd(SubSeq(text, 1, Len(text) - 1))
    ELSE text

\* String.prototype.trim
trim(text) == trimEnd(trimStart(text))

\* Array.prototype.includes
includes(list, value) == \E i \in 1..Len(list) : list[i] = value

\* the strings the strategies declare
TextCsv == <<"t", "e", "x", "t", "/", "c", "s", "v">>
ApplicationCsv == <<"a", "p", "p", "l", "i", "c", "a", "t", "i", "o", "n", "/", "c", "s", "v">>
Csv == <<"c", "s", "v">>
TextCsvUtf8 == <<"t", "e", "x", "t", "/", "c", "s", "v", ";", " ", "c", "h", "a", "r", "s", "e", "t", "=", "u", "t", "f", "-", "8">>
TextTsv == <<"t", "e", "x", "t", "/", "t", "s", "v">>
Tsv == <<"t", "s", "v">>
TextJson == <<"t", "e", "x", "t", "/", "J", "S", "O", "N">>
Json == <<"J", "S", "O", "N">>

\* CsvImportStrategy.mimeTypes and fileExtensions
CsvImportStrategy ==
  [name |-> "CsvImportStrategy",
   mimeTypes |-> <<TextCsv, ApplicationCsv>>, fileExtensions |-> <<Csv>>]

\* CsvExportStrategy.mimeType and fileExtension
CsvExportStrategy ==
  [name |-> "CsvExportStrategy", mimeType |-> TextCsvUtf8, fileExtension |-> Csv]

\* the import strategies that get registered: the CSV one, one that also
\* takes the csv extension, one whose declarations contain capitals
ImportStrategies ==
  { CsvImportStrategy,
    [name |-> "TsvImportStrategy",
     mimeTypes |-> <<TextTsv>>, fileExtensions |-> <<Tsv, Csv>>],
    [name |-> "JsonImportStrategy",
     mimeTypes |-> <<TextJson>>, fileExtensions |-> <<Json>>] }

\* the export strategies that get registered
ExportStrategies ==
  { CsvExportStrategy,
    [name |-> "PlainCsvExportStrategy", mimeType |-> TextCsv, fileExtension |-> Csv],
    [name |-> "JsonExportStrategy", mimeType |-> TextJson, fileExtension |-> Json] }

\* the strings asked for: declared and undeclared ones, as they are, in
\* capitals and with white space around them
Tokens ==
  LET plain == {TextCsv, ApplicationCsv, Csv, TextCsvUtf8, Tsv, TextJson, Json,
                toLowerCase(TextJson), <<"x", "m", "l">>, <<>>}
  IN  UNION { {t, toUpperCase(t), <<" ">> \o t \o <<"\t", " ">>,
               <<"\n">> \o toUpperCase(t)} : t \in plain }

\* resolveImport, with a later registration superseding an earlier one
resolveImport_LastRegistered(strategies, mimeTypeOrExtension) ==
  LET normalized == trim(toLowerCase(mimeTypeOrExtension))
      found == SelectSeq(strategies,
                         LAMBDA s : \/ includes(s.mimeTypes, normalized)
                                    \/ includes(s.fileExtensions, normalized))
  IN  IF Len(found) = 0 THEN <<>> ELSE <<found[Len(found)]>>

\* resolveImport, its result (find(...) ?? null) as a sequence of at most
\* one strategy
resolveImport(strategies, mimeTypeOrExtension) ==
  LET normalized == trim(toLowerCase(mimeTypeOrExtension))
      found == SelectSeq(strategies,
                         LAMBDA s : \/ includes(s.mimeTypes, normalized)
                                    \/ includes(s.fileExtensions, normalized))
  IN  IF Len(found) = 0 THEN <<>> ELSE <<found[1]>>

\* resolveExport, its result as a sequence of at most one strategy
resolveExport(strategies, mimeTypeOrExtension) ==
  LET normalized == trim(toLowerCase(mimeTypeOrExtension))
      found == SelectSeq(strategies,
                         LAMBDA s : \/ s.mimeType = normalized
                                    \/ s.fileExtension = normalized)
  IN  IF Len(found) = 0 THEN <<>> ELSE <<found[1]>>

\* the variables of the importer, the exporter and the repository
serviceVars == <<store, idCounter, clock, request, imp, returned, calls, exp>>

\* the registry takes another strategy
Registering == Len(importStrategies) + Len(exportStrategies) < MaxRegistered

\* registerImport, with unshift in place of push
registerImport_Unshift ==
  /\ Registering
  /\ \E strategy \in ImportStrategies :
       importStrategies' = <<strategy>> \o importStrategies
  /\ UNCHANGED <<exportStrategies, resolved, serviceVars, controllerVars>>

registerImport ==
  /\ Registering
  /\ \E strategy \in ImportStrategies :
       importStrategies' = Append(importStrategies, strategy)
  /\ UNCHANGED <<exportStrategies, resolved, serviceVars, controllerVars>>

registerExport ==
  /\ Registering
  /\ \E strategy \in ExportStrategies :
       exportStrategies' = Append(exportStrategies, strategy)
  /\ UNCHANGED <<importStrategies, resolved, serviceVars, controllerVars>>

\* the one call of resolveImport
resolveImportCall ==
  /\ resolved = <<>>
  /\ \E token \in Tokens :
       resolved' = <<[kind |-> "import", token |-> token, among |-> importStrategies,
                      strategy |-> resolveImport(importStrategies, token)]>>
  /\ UNCHANGED <<importStrategies, exportStrategies, serviceVars, controllerVars>>

\* the one call of resolveExport
resolveExportCall ==
  /\ resolved = <<>>
  /\ \E token \in Tokens :
       resolved' = <<[kind |-> "export", token |-> token, among |-> exportStrategies,
                      strategy |-> resolveExport(exportStrategies, token)]>>
  /\ UNCHANGED <<importStrategies, exportStrategies, serviceVars, controllerVars>>

InitRegistry ==
  /\ store = EmptyStore
  /\ idCounter = 0
  /\ clock = 0
  /\ request = [rawData |-> <<>>,
                options |-> [contentType |-> CT, locale |-> Undefined,
                             idField |-> Undefined, excludeFields |-> {}]]
  /\ imp = [p \in Procs |-> IdleImport]
  /\ returned = <<>>
  /\ calls = <<>>
  /\ exp = IdleExport
  /\ EmptyRegistry
  /\ NoRequest

NextRegistry ==
  \/ registerImport
  \/ registerExport
  \/ resolveImportCall
  \/ resolveExportCall

SpecRegistry == InitRegistry /\ [][NextRegistry]_vars

\* ------------------------------------------------------------------------
\* Round trip: a file is imported into a fresh repository, the collection is
\* exported, and the exported text is imported again with the same options
\* ------------------------------------------------------------------------

RoundTripPool ==
  RecordPool \cup {[title |-> "V", slug |-> "v", views |-> Num("10")]}

RoundTripFiles ==
  UNION { [1..n -> [ok : {TRUE}, record : RoundTripPool, detail : {""}]] :
            n \in 0..MaxRecords }

RoundTripOptions ==
  [contentType : {CT}, locale : {Undefined, "ja"}, idField : {"slug"},
   excludeFields : {{}, {"updatedAt", "locale"}}]

\* the import of the file
firstImport(p) ==
  /\ Started = 0
  /\ importCall(p)

\* the export, once the import has returned
exportAfterImport ==
  /\ Len(returned) = 1
  /\ \A p \in Procs : imp[p].pc = "idle"
  /\ exportCall

\* import() is called with the text the export returned
reimportCall(p) ==
  /\ imp[p].pc = "idle"
  /\ exp.pc = "returned"
  /\ Len(returned) = 1
  /\ imp' = [imp EXCEPT ![p] =
       [IdleImport EXCEPT !.pc = "parse", !.rawData = CsvFile(exp.result[1].data),
                          !.options = request.options,
                          !.run = Started + 1, !.before = store]]
  /\ UNCHANGED <<store, idCounter, clock, request, returned, calls, exp,
                 registryVars, controllerVars>>

InitRoundTrip ==
  /\ store = EmptyStore
  /\ idCounter = 0
  /\ clock = 0
  /\ request \in [rawData : RoundTripFiles, options : RoundTripOptions]
  /\ imp = [p \in Procs |-> IdleImport]
  /\ returned = <<>>
  /\ calls = <<>>
  /\ exp = IdleExport
  /\ EmptyRegistry
  /\ NoRequest

NextRoundTrip ==
  \/ firstImport("A")
  \/ importParse("A")
  \/ processRecord("A")
  \/ processFindFirst("A")
  \/ processCreate("A")
  \/ processUpdate("A")
  \/ importReturn("A")
  \/ exportAfterImport
  \/ exportFetch
  \/ exportFormat
  \/ reimportCall("A")

SpecRoundTrip == InitRoundTrip /\ [][NextRoundTrip]_vars

\* ------------------------------------------------------------------------
\* Properties of the importer (checked under Spec)
\* ------------------------------------------------------------------------

\* the positions in the log of the repository calls of import `run` of caller `by`
CallsOf(by, run) ==
  { j \in 1..Len(calls) : calls[j].by = by /\ calls[j].run = run }

\* those of them that failed
FailuresOf(by, run) == { j \in CallsOf(by, run) : ~calls[j].ok }

\* the rows (0-indexed) whose repository call failed
FailedRows(by, run) == { calls[j].row : j \in FailuresOf(by, run) }

\* created + updated + skipped + failed
Sum(result) == result.created + result.updated + result.skipped + result.failed

\* C1 (partial-failure isolation): when the parse succeeds with `total`
\* records and the repository calls of exactly one record k fail, the import
\* returns failed = 1, created + updated = total - 1 and errors = <<[row k,
\* message of the failure]>>, and every record after k got its write call.
C1_PartialFailureIsolation ==
  \A n \in 1..Len(returned) :
    LET r == returned[n]
        parsed == strategyParse(r.rawData)
        total == Len(parsed.records)
    IN  (parsed.ok /\ Cardinality(FailedRows(r.by, r.run)) = 1) =>
          LET j == CHOOSE j \in FailuresOf(r.by, r.run) : TRUE
              k == calls[j].row
          IN  /\ r.result.failed = 1
              /\ r.result.created + r.result.updated = total - 1
              /\ r.result.errors = <<[row |-> k, message |-> calls[j].error]>>
              /\ \A i \in (k + 1)..(total - 1) :
                   \E w \in CallsOf(r.by, r.run) :
                     /\ calls[w].row = i
                     /\ calls[w].ok
                     /\ calls[w].op \in {"create", "update"}

\* C1 witness: an import of two or more records has returned, the call of
\* its first record having failed
C1_Witness ==
  \E n \in 1..Len(returned) :
    /\ strategyParse(returned[n].rawData).ok
    /\ Len(returned[n].rawData) >= 2
    /\ FailedRows(returned[n].by, returned[n].run) = {0}

\* the states of an import inside its loop
InLoop == {"loop", "findFirst", "create", "update"}

C2_Sums ==
  /\ \A n \in 1..Len(returned) :
       LET parsed == strategyParse(returned[n].rawData)
       IN  parsed.ok => Sum(returned[n].result) = Len(parsed.records)
  /\ \A p \in Procs : imp[p].pc \in InLoop => Sum(imp[p].result) = imp[p].i

C2_OneCounterPerRecord ==
  \A p \in Procs :
    (imp[p].pc \in InLoop /\ imp'[p].pc \in InLoop /\ imp'[p].i = imp[p].i + 1) =>
      \E c \in {"created", "updated", "skipped", "failed"} :
        /\ imp'[p].result[c] = imp[p].result[c] + 1
        /\ \A d \in {"created", "updated", "skipped", "failed"} \ {c} :
             imp'[p].result[d] = imp[p].result[d]

C3_ParseFailureShortCircuit ==
  \A n \in 1..Len(returned) :
    LET r == returned[n]
        parsed == strategyParse(r.rawData)
    IN  ~parsed.ok =>
          /\ r.result.created = 0
          /\ r.result.updated = 0
          /\ r.result.skipped = 0
          /\ r.result.failed = 1
          /\ Len(r.result.errors) = 1
          /\ r.result.errors[1].row = -1
          /\ \E before \in {"", "Failed to parse the file: "} :
               r.result.errors[1].message = before \o parsed.message
          /\ CallsOf(r.by, r.run) = {}
          /\ r.after = r.before

\* C3 witness: an import has returned whose file has a well-formed first
\* line and a malformed later one
C3_Witness ==
  \E n \in 1..Len(returned) :
    /\ ~strategyParse(returned[n].rawData).ok
    /\ Len(returned[n].rawData) >= 2
    /\ returned[n].rawData[1].ok

\* the options, parsed records, result so far and logged calls of import
\* `run` of caller `by`
ImportOf(by, run) ==
  IF imp[by].pc # "idle" /\ imp[by].run = run
    THEN [options |-> imp[by].options, records |-> imp[by].records,
          result |-> imp[by].result, calls |-> CallsOf(by, run)]
    ELSE LET n == CHOOSE n \in 1..Len(returned) :
                    returned[n].by = by /\ returned[n].run = run
         IN  [options |-> returned[n].options,
              records |-> strategyParse(returned[n].rawData).records,
              result |-> returned[n].result, calls |-> CallsOf(by, run)]

\* the imports that have made a repository call, as pairs <<caller, run>>
Begun ==
  { b \in Procs \X Runs : \E j \in 1..Len(calls) : calls[j].by = b[1] /\ calls[j].run = b[2] }

\* the record a logged call of import `in` was made for
RecordOf(in, j) == in.records[calls[j].row + 1]

\* the record of call j has a present, non-empty value at the import's idField
Keyed(in, j) ==
  /\ in.options.idField \notin {Undefined, ""}
  /\ in.options.idField \in DOMAIN RecordOf(in, j)
  /\ RecordOf(in, j)[in.options.idField] \notin {Null, ""}

\* the positions in the log of the calls made for the same record as calls[j]
SameRecord(in, j) == { w \in in.calls : calls[w].row = calls[j].row }

\* the record without the four store-reserved fields
Payload(rec) ==
  [k \in (DOMAIN rec) \ {"documentId", "createdAt", "updatedAt", "publishedAt"} |-> rec[k]]

\* the number of successful calls of operation op logged for an import
Succeeded(in, op) ==
  Cardinality({ j \in in.calls : calls[j].op = op /\ calls[j].ok })

\* C4 (upsert decision): a record with a present, non-empty idField value
\* starts with findFirst filtered on idField = {$eq: value}, scoped to
\* options.locale; a found document is followed by update of that document's
\* documentId, no document by create, each with the sanitized payload;
\* updated counts the successful updates and created the successful creates.
C4_UpsertDecision ==
  \A b \in Begun :
    LET in == ImportOf(b[1], b[2])
    IN
    /\ in.result.updated = Succeeded(in, "update")
    /\ in.result.created = Succeeded(in, "create")
    /\ \A j \in in.calls :
         LET c == calls[j]
             same == SameRecord(in, j)
             later == { w \in same : w > j }
         IN  Keyed(in, j) =>
               /\ c.op # "findFirst" =>
                    \E f \in same : f < j /\ calls[f].op = "findFirst" /\ calls[f].ok
               /\ c.op = "findFirst" =>
                    /\ \A w \in same : w >= j
                    /\ c.contentType = in.options.contentType
                    /\ c.params.filters =
                         (in.options.idField :>
                            [op |-> "$eq", value |-> RecordOf(in, j)[in.options.idField]])
                    /\ c.params.locale = in.options.locale
               /\ (c.op = "findFirst" /\ c.ok) =>
                    LET then == IF c.ret # <<>> THEN "update" ELSE "create"
                    IN  IF later = {}
                          THEN /\ imp[c.by].run = c.run
                               /\ imp[c.by].i = c.row
                               /\ imp[c.by].pc = then
                          ELSE /\ later = {j + 1}
                               /\ calls[j + 1].op = then
                               /\ calls[j + 1].data = Payload(RecordOf(in, j))
                               /\ calls[j + 1].locale = in.options.locale
                               /\ then = "update" =>
                                    calls[j + 1].documentId = c.ret[1].documentId

\* C4 witness: an import with idField and locale set has returned after
\* updating one record and creating another
C4_Witness ==
  \E n \in 1..Len(returned) :
    /\ returned[n].options.idField = "slug"
    /\ returned[n].options.locale = "ja"
    /\ returned[n].result.updated >= 1
    /\ returned[n].result.created >= 1
    /\ returned[n].result.failed = 0

\* C5 (plain create): a record of an import without idField, or whose value
\* at idField is missing, null or "", gets exactly one repository call, a
\* create, and never findFirst or update; a successful one is counted in
\* created and in no other counter.
C5_CreateWithoutKey ==
  \A b \in Begun :
    LET in == ImportOf(b[1], b[2])
        plain == { j \in in.calls : ~Keyed(in, j) }
        keyed == in.calls \ plain
    IN  /\ \A j \in plain : calls[j].op = "create" /\ SameRecord(in, j) = {j}
        /\ in.result.created =
             Cardinality({ j \in plain : calls[j].ok })
               + Cardinality({ j \in keyed : calls[j].ok /\ calls[j].op = "create" })
        /\ in.result.updated =
             Cardinality({ j \in keyed : calls[j].ok /\ calls[j].op = "update" })
        /\ in.result.skipped = 0
        /\ in.result.failed = Cardinality({ j \in in.calls : ~calls[j].ok })

\* C5 witness: with idField set, records whose key is empty and whose key is
\* missing or null have been created
C5_Witness ==
  /\ \E b \in Begun : LET in == ImportOf(b[1], b[2]) IN \E j \in in.calls :
       /\ calls[j].ok /\ calls[j].op = "create"
       /\ in.options.idField = "slug"
       /\ Get(RecordOf(in, j), "slug") = ""
  /\ \E b \in Begun : LET in == ImportOf(b[1], b[2]) IN \E j \in in.calls :
       /\ calls[j].ok /\ calls[j].op = "create"
       /\ in.options.idField = "slug"
       /\ Get(RecordOf(in, j), "slug") \in {Undefined, Null}

\* C7 (sanitization): the payload of every create and update call holds none
\* of documentId, createdAt, updatedAt, publishedAt, and holds every other
\* key of the parsed record (the idField key included) with the record's value.
C7_Sanitization ==
  \A b \in Begun : LET in == ImportOf(b[1], b[2]) IN \A j \in in.calls :
    calls[j].op \in {"create", "update"} =>
      /\ DOMAIN calls[j].data
           \cap {"documentId", "createdAt", "updatedAt", "publishedAt"} = {}
      /\ \A k \in DOMAIN RecordOf(in, j)
                    \ {"documentId", "createdAt", "updatedAt", "publishedAt"} :
           k \in DOMAIN calls[j].data /\ calls[j].data[k] = RecordOf(in, j)[k]

\* C7 witness: a record carrying all four reserved fields has been sent to
\* update and another such record to create
C7_Witness ==
  \E b \in Begun : LET in == ImportOf(b[1], b[2]) IN \E j, w \in in.calls :
    /\ calls[j].ok /\ calls[j].op = "update"
    /\ calls[w].ok /\ calls[w].op = "create"
    /\ {"documentId", "createdAt", "updatedAt", "publishedAt", "slug"}
         \subseteq DOMAIN RecordOf(in, j)
    /\ "publishedAt" \in DOMAIN RecordOf(in, w)

\* returned[n2] is the repetition of import returned[n1]: the same file and
\* options, parsed into records, with idField set, run next on the store the
\* first one left, and no repository call of either failed
Reimport(n1, n2) ==
  /\ n1 < n2
  /\ returned[n2].rawData = returned[n1].rawData
  /\ returned[n2].options = returned[n1].options
  /\ returned[n2].before = returned[n1].after
  /\ strategyParse(returned[n1].rawData).ok
  /\ returned[n1].options.idField \notin {Undefined, ""}
  /\ FailuresOf(returned[n1].by, returned[n1].run) = {}
  /\ FailuresOf(returned[n2].by, returned[n2].run) = {}

\* created = N, updated = 0, then created = 0, updated = N, on as many documents
ReimportCounts(n1, n2) ==
  LET N == Len(strategyParse(returned[n1].rawData).records)
      contentType == returned[n1].options.contentType
  IN  /\ returned[n1].result.created = N
      /\ returned[n1].result.updated = 0
      /\ returned[n2].result.created = 0
      /\ returned[n2].result.updated = N
      /\ Len(returned[n2].after[contentType]) = Len(returned[n1].after[contentType])

\* the records of import returned[n] carry pairwise distinct, present,
\* non-empty values at an idField that sanitization keeps, none of them on a
\* document of the collection beforehand, and no locale of their own that
\* differs from a locale the import is scoped to
DistinctFreshKeys(n) ==
  LET r == returned[n]
      records == strategyParse(r.rawData).records
      idField == r.options.idField
      held == r.before[r.options.contentType]
  IN  /\ idField \notin {"documentId", "createdAt", "updatedAt", "publishedAt"}
      /\ \A i \in 1..Len(records) :
           /\ idField \in DOMAIN records[i]
           /\ records[i][idField] \notin {Null, ""}
           /\ \A h \in 1..Len(held) : Get(held[h].doc, idField) # records[i][idField]
           /\ \/ r.options.locale = Undefined
              \/ Get(records[i], "locale") \in {Undefined, Null, r.options.locale}
      /\ \A i, k \in 1..Len(records) :
           i # k => records[i][idField] # records[k][idField]

\* C6 as stated (idempotent re-import): any file of N records imported twice
\* in sequence with the same idField gives created = N, updated = 0, then
\* created = 0, updated = N, with the document count unchanged by the second.
C6_AsStated ==
  \A n1, n2 \in 1..Len(returned) : Reimport(n1, n2) => ReimportCounts(n1, n2)

\* C6 (idempotent re-import), for files whose records carry pairwise
\* distinct, non-empty idField values not yet in the collection and no locale
\* at odds with the import's: the first import gives created = N, updated = 0,
\* the second created = 0, updated = N, and the document count is unchanged.
C6_IdempotentReimport ==
  \A n1, n2 \in 1..Len(returned) :
    (Reimport(n1, n2) /\ DistinctFreshKeys(n1)) => ReimportCounts(n1, n2)

\* C6 witness: a file of two records with distinct keys, one of them tagged
\* with a locale, has been imported twice without a failure
C6_Witness ==
  \E n1, n2 \in 1..Len(returned) :
    /\ Reimport(n1, n2)
    /\ DistinctFreshKeys(n1)
    /\ Len(returned[n1].rawData) = 2
    /\ \E i \in 1..2 : "locale" \in DOMAIN returned[n1].rawData[i].record

\* ------------------------------------------------------------------------
\* Properties of one export (checked under SpecExport)
\* ------------------------------------------------------------------------

\* the documents of the exported collection, in the repository's order
Collection == [j \in 1..Len(store[CT]) |-> store[CT][j].doc]

\* those of them an export scoped to `locale` selects: all when no locale is
\* given, else the ones tagged with that locale or with none
Matching(locale) ==
  IF locale \in {Undefined, Null, ""}
    THEN Collection
    ELSE SelectSeq(Collection,
                   LAMBDA d : "locale" \notin DOMAIN d \/ d.locale \in {Null, locale})

\* the export has fetched its last page
Fetched == exp.pc \in {"format", "returned"}

\* strategy.format was handed exactly docs, in order; when there are
\* 2 * PAGE_SIZE + 1 of them, after 3 findMany calls, and the output holds
\* that many pairwise distinct rows
HandedExactly(docs) ==
  Fetched =>
    /\ exp.collected = docs
    /\ Cardinality({ exp.collected[i].documentId : i \in 1..Len(exp.collected) })
         = Len(exp.collected)
    /\ exp.pc = "returned" => exp.formats = 1 /\ Len(exp.result[1].data.rows) = Len(docs)
    /\ Len(docs) = 2 * PAGE_SIZE + 1 =>
         /\ Len(calls) = 3
         /\ exp.pc = "returned" =>
              Cardinality({ exp.result[1].data.rows[i] : i \in 1..Len(exp.result[1].data.rows) })
                = 2 * PAGE_SIZE + 1

\* C8 as stated (pagination completeness): for an unmutated collection of N
\* documents strategy.format is handed exactly those N documents, once each,
\* in repository order; for N = 2 * pageSize + 1 after exactly 3 findMany
\* calls, and the output holds N distinct records.
C8_AsStated == HandedExactly(Collection)

\* C8 (pagination completeness), for the documents the export's locale
\* selects (all of them when no locale is given): strategy.format is handed
\* exactly those, once each, in repository order; when there are
\* 2 * pageSize + 1 of them, after exactly 3 findMany calls, and the output
\* holds that many distinct records.
C8_PaginationCompleteness == HandedExactly(Matching(exp.options.locale))

\* C8 witness: an export of 2 * PAGE_SIZE + 1 documents has returned
C8_Witness ==
  /\ exp.pc = "returned"
  /\ Len(Collection) = 2 * PAGE_SIZE + 1
  /\ Len(exp.result[1].data.rows) = 2 * PAGE_SIZE + 1

\* the findMany calls ask for pages 1, 2, 3, ... of PAGE_SIZE documents, each
\* after the full page before it was received, and none after a short page;
\* over n documents that makes n \div PAGE_SIZE + 1 calls
PageSequence(n) ==
  /\ \A j \in 1..Len(calls) :
       /\ calls[j].op = "findMany"
       /\ calls[j].params.pagination = [on |-> TRUE, page |-> j, pageSize |-> 500]
       /\ j < Len(calls) => calls[j].ok /\ Len(calls[j].ret) = 500
       /\ (calls[j].ok /\ Len(calls[j].ret) < 500) => j = Len(calls) /\ Fetched
  /\ exp.pc = "fetch" => exp.page = Len(calls) + 1
  /\ Fetched => /\ Len(calls[Len(calls)].ret) < 500
                /\ Len(calls) = (n \div 500) + 1

\* C9 as stated (page request sequence): pages 1, 2, 3, ... of 500, each
\* requested after the one before was received, stopping at the first page
\* of fewer than 500 documents; floor(N / 500) + 1 calls for a collection of
\* N documents.
C9_AsStated == PageSequence(Len(Collection))

\* C9 (page request sequence): pages 1, 2, 3, ... of 500, each requested
\* after the one before was received, stopping at the first page of fewer
\* than 500 documents; floor(N / 500) + 1 calls when N documents of the
\* collection are selected by the export's locale (all when none is given).
C9_PageSequence == PageSequence(Len(Matching(exp.options.locale)))

\* C9 witness: an export of exactly 2 * PAGE_SIZE documents has fetched an
\* empty third page
C9_Witness ==
  /\ Fetched
  /\ Len(exp.collected) = 2 * PAGE_SIZE
  /\ Len(calls) = 3
  /\ calls[3].ret = <<>>

\* C10 (export abort on fetch failure): once a findMany call has failed, the
\* export has thrown that failure, strategy.format has not run, no
\* ExportResult exists and the failed call is the last one made.
C10_AbortOnFetchFailure ==
  \A j \in 1..Len(calls) :
    ~calls[j].ok =>
      /\ exp.pc = "threw"
      /\ exp.error = calls[j].error
      /\ exp.formats = 0
      /\ exp.result = <<>>
      /\ j = Len(calls)

\* C10 witness: the second page request of an export has failed after a
\* full first page was collected
C10_Witness ==
  /\ exp.pc = "threw"
  /\ Len(calls) = 2
  /\ ~calls[2].ok
  /\ Len(exp.collected) = PAGE_SIZE

\* ------------------------------------------------------------------------
\* Properties of the round trip (checked under SpecRoundTrip)
\* ------------------------------------------------------------------------

\* the re-import of the exported text has returned, no repository call of
\* the export or of the re-import failed, and before the export every
\* document carried a non-empty slug of its own
RoundTripped(n) ==
  LET held == returned[n].before[CT]
  IN  /\ returned[n].run = 2
      /\ exp.pc = "returned"
      /\ \A j \in 1..Len(calls) : calls[j].ok \/ calls[j].run = 1
      /\ \A j \in 1..Len(held) :
           /\ "slug" \in DOMAIN held[j].doc
           /\ held[j].doc.slug \notin {Null, ""}
           /\ \A k \in 1..Len(held) : k # j => Get(held[k].doc, "slug") # held[j].doc.slug

\* C11 as stated (round-trip stability): after the export and the re-import
\* of the exported text with the same idField, the collection holds as many
\* documents as before the export, and every non-excluded field of every
\* document has the value it had before.
C11_AsStated ==
  \A n \in 1..Len(returned) :
    RoundTripped(n) =>
      LET before == returned[n].before[CT]
          after == returned[n].after[CT]
      IN  /\ Len(after) = Len(before)
          /\ \A j \in 1..Len(before) :
               \A k \in DOMAIN before[j].doc \ exp.options.excludeFields :
                 Get(after[j].doc, k) = before[j].doc[k]

\* C12 as stated (export field exclusion): in the serialized output of an
\* export no excluded field is a column, and every non-excluded field of
\* every document is written, under its name, in the document's row, whatever
\* the other documents are.
C12_AsStated ==
  exp.pc = "returned" =>
    LET csv == exp.result[1].data
        docs == exp.collected
        excluded == exp.options.excludeFields
    IN  /\ csv.columns \cap excluded = {}
        /\ Len(csv.rows) = Len(docs)
        /\ \A j \in 1..Len(docs) :
             \A k \in DOMAIN docs[j] \ excluded :
               /\ k \in csv.columns
               /\ csv.rows[j][k] = Cell(docs[j][k])

\* ------------------------------------------------------------------------
\* Properties of concurrent imports (checked under SpecConcurrent)
\* ------------------------------------------------------------------------

\* the findFirst call made for the same record as the write calls[j]
ReadOf(j) ==
  CHOOSE f \in 1..j :
    /\ calls[f].by = calls[j].by /\ calls[f].run = calls[j].run
    /\ calls[f].row = calls[j].row /\ calls[f].op = "findFirst"

\* calls[j] is a successful write that followed a findFirst for its record
UpsertWrite(j, op) ==
  /\ calls[j].by \in Procs /\ calls[j].ok /\ calls[j].op = op
  /\ \E f \in 1..j :
       /\ calls[f].by = calls[j].by /\ calls[f].run = calls[j].run
       /\ calls[f].row = calls[j].row /\ calls[f].op = "findFirst"

\* the writes j1 < j2 of two imports raced: each import read before either wrote
Raced(j1, j2) ==
  /\ j1 < j2
  /\ <<calls[j1].by, calls[j1].run>> # <<calls[j2].by, calls[j2].run>>
  /\ ReadOf(j2) < j1

\* the successful writes to document d logged after call j
WritesAfter(j, d) ==
  { w \in (j + 1)..Len(calls) :
      /\ calls[w].ok /\ calls[w].op \in {"create", "update"}
      /\ calls[w].ret[1].documentId = d }

\* C13 (concurrent-import race): nothing holds an import back between its
\* findFirst and its write, whatever the other import is doing; when two
\* imports both update a document that each found before either wrote, the
\* document is left as the later update wrote it.
C13_ReadThenWriteUnlocked ==
  /\ \A p \in Procs :
       /\ imp[p].pc = "findFirst" => ENABLED processFindFirst(p)
       /\ imp[p].pc = "create" => ENABLED processCreate(p)
       /\ imp[p].pc = "update" => ENABLED processUpdate(p)
  /\ \A j1, j2 \in 1..Len(calls) :
       ( /\ UpsertWrite(j1, "update") /\ UpsertWrite(j2, "update")
         /\ Raced(j1, j2)
         /\ calls[j1].documentId = calls[j2].documentId
         /\ WritesAfter(j2, calls[j2].documentId) = {}
         /\ MapGet(store[CT], calls[j2].documentId) # <<>> )
       => MapGet(store[CT], calls[j2].documentId) = calls[j2].ret

\* C13 witness: two imports of a file with a repeated key have both created
\* a document for the key, each after finding none, and have then both
\* updated one of the documents, each after finding it
C13_Witness ==
  /\ \E j1, j2 \in 1..Len(calls) :
       /\ UpsertWrite(j1, "create") /\ UpsertWrite(j2, "create")
       /\ Raced(j1, j2)
       /\ calls[j1].data.slug = calls[j2].data.slug
       /\ \E d1, d2 \in 1..Len(store[CT]) :
            /\ d1 # d2
            /\ Get(store[CT][d1].doc, "slug") = calls[j1].data.slug
            /\ Get(store[CT][d2].doc, "slug") = calls[j1].data.slug
  /\ \E j1, j2 \in 1..Len(calls) :
       /\ UpsertWrite(j1, "update") /\ UpsertWrite(j2, "update")
       /\ Raced(j1, j2)
       /\ calls[j1].documentId = calls[j2].documentId
       /\ MapGet(store[CT], calls[j2].documentId) = calls[j2].ret

\* the rows of an error list increase strictly
Increasing(errors) ==
  \A k \in 1..(Len(errors) - 1) : errors[k].row < errors[k + 1].row

\* C14 (strict record ordering): the repository calls of one import are made
\* record by record in index order, none for a record before the calls of
\* the record before it have returned and none skipped, also while another
\* import's calls interleave; every errors list has strictly increasing rows.
C14_RecordOrder ==
  /\ \A b \in Begun :
       LET in == ImportOf(b[1], b[2])
           rows == { calls[j].row : j \in in.calls }
           running == imp[b[1]].pc # "idle" /\ imp[b[1]].run = b[2]
       IN  /\ \A j1, j2 \in in.calls : j1 < j2 => calls[j1].row <= calls[j2].row
           /\ \A r \in rows : r >= 0 /\ (r > 0 => r - 1 \in rows)
           /\ running =>
                /\ \A r \in rows : r <= imp[b[1]].i
                /\ \A r \in 0..(imp[b[1]].i - 1) : r \in rows
           /\ ~running => rows = 0..(Len(in.records) - 1)
  /\ \A p \in Procs : Increasing(imp[p].result.errors)
  /\ \A n \in 1..Len(returned) : Increasing(returned[n].result.errors)

\* C14 witness: an import has returned two row errors, for rows 0 and 1,
\* with a repository call of the other import between its own calls
C14_Witness ==
  \E n \in 1..Len(returned) :
    /\ Len(returned[n].result.errors) = 2
    /\ returned[n].result.errors[1].row = 0
    /\ returned[n].result.errors[2].row = 1
    /\ \E j1, j2, j3 \in 1..Len(calls) :
         /\ j1 < j2 /\ j2 < j3
         /\ calls[j1].by = returned[n].by /\ calls[j1].run = returned[n].run
         /\ calls[j3].by = returned[n].by /\ calls[j3].run = returned[n].run
         /\ <<calls[j2].by, calls[j2].run>> # <<returned[n].by, returned[n].run>>

\* the calls of import `in` made before calls[j]
Earlier(in, j) == { w \in in.calls : w < j }

\* calls[j] is an update that failed because the document was gone
Vanished(j) ==
  /\ calls[j].op = "update"
  /\ ~calls[j].ok
  /\ calls[j].error = NotFound(calls[j].documentId)

\* C15 (update after find, NotFound isolation): every update call of an
\* import carries the documentId of the document returned by the findFirst
\* that the import issued for the same record as its last call before; an
\* update that fails because the document is gone is recorded as an error
\* of its row, counted in failed and not in updated, and the records after
\* it are processed.
C15_UpdateAfterFind ==
  \A b \in Begun :
    LET in == ImportOf(b[1], b[2])
        running == imp[b[1]].pc # "idle" /\ imp[b[1]].run = b[2]
    IN  /\ in.result.updated = Succeeded(in, "update")
        /\ in.result.failed = Cardinality({ j \in in.calls : ~calls[j].ok })
        /\ \A j \in in.calls :
             calls[j].op = "update" =>
               /\ Earlier(in, j) # {}
               /\ LET f == CHOOSE f \in Earlier(in, j) : \A w \in Earlier(in, j) : w <= f
                  IN  /\ calls[f].op = "findFirst"
                      /\ calls[f].ok
                      /\ calls[f].row = calls[j].row
                      /\ calls[f].ret # <<>>
                      /\ calls[j].documentId = calls[f].ret[1].documentId
               /\ Vanished(j) =>
                    /\ \E k \in 1..Len(in.result.errors) :
                         in.result.errors[k] =
                           [row |-> calls[j].row, message |-> NotFound(calls[j].documentId)]
                    /\ running => imp[b[1]].i > calls[j].row
                    /\ ~running =>
                         \A r \in (calls[j].row + 1)..(Len(in.records) - 1) :
                           \E w \in in.calls : w > j /\ calls[w].row = r

\* C15 witness: an import has returned whose update for its first record
\* found the document gone and whose second record was then written
C15_Witness ==
  \E n \in 1..Len(returned) : \E j, w \in CallsOf(returned[n].by, returned[n].run) :
    /\ Vanished(j)
    /\ calls[j].row = 0
    /\ calls[w].row = 1 /\ calls[w].ok /\ calls[w].op \in {"create", "update"}
    /\ returned[n].result.failed = 1
    /\ returned[n].result.created + returned[n].result.updated = 1

\* ------------------------------------------------------------------------
\* Claims about the repository (SpecRepo)
\* ------------------------------------------------------------------------

\* the identifier and timestamp fields of a document
Assigned == {"documentId", "createdAt", "updatedAt"}

\* the keys under which the documents of a collection are stored
KeysOf(contentType) ==
  { store[contentType][e].key : e \in 1..Len(store[contentType]) }

\* C16 as stated (repository create): every document is stored under a key
\* of its own that is its documentId, and the document a create call returns
\* has none of the documentId, createdAt and updatedAt values the caller put
\* into data.
C16_AsStated ==
  /\ \A ct \in ContentTypes :
       /\ Cardinality(KeysOf(ct)) = Len(store[ct])
       /\ \A e \in 1..Len(store[ct]) :
            store[ct][e].doc.documentId = store[ct][e].key
  /\ \A j \in Direct({"create"}) :
       \A k \in Assigned \cap DOMAIN calls[j].data :
         calls[j].ret[1][k] # calls[j].data[k]

\* the step is a direct update call
UpdateStep ==
  /\ Len(calls') = Len(calls) + 1
  /\ calls'[Len(calls')].by = "test"
  /\ calls'[Len(calls')].op = "update"

\* what C17 says of a missing documentId: the call fails with the not-found
\* error and the store is as before
MissingLeftAlone(c) ==
  /\ ~c.ok
  /\ c.error = NotFound(c.documentId)
  /\ store' = store

\* around the updated entry nothing changes: the other collections, the
\* number of documents, the other documents and the key of the entry
OthersUntouched(c, at) ==
  /\ \A ct \in ContentTypes \ {c.contentType} : store'[ct] = store[ct]
  /\ Len(store'[c.contentType]) = Len(store[c.contentType])
  /\ \A e \in 1..Len(store[c.contentType]) :
       IF e \in at
         THEN store'[c.contentType][e].key = c.documentId
         ELSE store'[c.contentType][e] = store[c.contentType][e]

\* C17 as stated (repository update): an update of a missing documentId
\* fails with not-found and leaves the store unchanged; an update of an
\* existing one leaves a document with exactly the fields of the old one and
\* of data, the fields of data carrying data's values and all others their
\* old values, under the same documentId, among the same number of documents,
\* the others untouched.
C17_AsStated ==
  [][UpdateStep =>
       LET c == calls'[Len(calls')]
           at == { e \in 1..Len(store[c.contentType]) :
                     store[c.contentType][e].key = c.documentId }
       IN  IF at = {} THEN MissingLeftAlone(c)
           ELSE /\ c.ok
                /\ OthersUntouched(c, at)
                /\ \A e \in at :
                     LET old == store[c.contentType][e].doc
                         new == store'[c.contentType][e].doc
                     IN  /\ DOMAIN new = DOMAIN old \cup DOMAIN c.data
                         /\ new.documentId = old.documentId
                         /\ \A k \in DOMAIN c.data : new[k] = c.data[k]
                         /\ \A k \in DOMAIN old \ DOMAIN c.data : new[k] = old[k]]_vars

\* C17 (repository update): an update of a documentId missing from the
\* collection fails with the not-found error and leaves the store unchanged.
\* An update of an existing one returns and stores, under the same key and at
\* the same position, a document whose documentId is the addressed one (also
\* against a documentId in data), whose updatedAt is the time of the update
\* (also against an updatedAt in data), whose locale is the locale argument
\* when one is passed, whose other fields present in data have data's values
\* and whose remaining fields are the old ones; the number of documents and
\* every other document are unchanged.
C17_Update ==
  [][UpdateStep =>
       LET c == calls'[Len(calls')]
           at == { e \in 1..Len(store[c.contentType]) :
                     store[c.contentType][e].key = c.documentId }
       IN  IF at = {} THEN MissingLeftAlone(c)
           ELSE /\ c.ok
                /\ OthersUntouched(c, at)
                /\ clock' = clock + 1
                /\ \A e \in at :
                     LET old == store[c.contentType][e].doc
                         new == store'[c.contentType][e].doc
                         given == IF c.locale # Undefined THEN {"locale"} ELSE {}
                     IN  /\ c.ret = <<new>>
                         /\ DOMAIN new = DOMAIN old \cup DOMAIN c.data
                                           \cup {"documentId", "updatedAt"} \cup given
                         /\ new.documentId = c.documentId
                         /\ new.updatedAt = Iso(clock')
                         /\ \A k \in given : new[k] = c.locale
                         /\ \A k \in DOMAIN new \ ({"documentId", "updatedAt"} \cup given) :
                              new[k] = IF k \in DOMAIN c.data THEN c.data[k] ELSE old[k]]_vars

\* C17 witness: a direct update whose data carried a documentId and an
\* updatedAt has succeeded on a seeded document with timestamps, next to
\* another document
C17_Witness ==
  \E j \in Direct({"update"}) :
    /\ calls[j].ok
    /\ {"documentId", "updatedAt"} \subseteq DOMAIN calls[j].data
    /\ Len(store[CT]) >= 2
    /\ store[CT][1].doc.documentId = SeededId(1)
    /\ store[CT][1].doc.title = "Y"
    /\ Get(store[CT][1].doc, "createdAt") = "2023-12-31"
    /\ store[CT][1].doc.updatedAt = Iso(clock)

\* d.locale == null: the document is tagged with no locale
Untagged(d) == Get(d, "locale") \in {Null, Undefined}

\* the document satisfies every equality filter of the query
Satisfies(d, q) ==
  \A f \in DOMAIN q.filters : Get(d, f) = q.filters[f].value

\* the documents of the collection, in store order, that the filters and a
\* non-empty locale of the query select
Matches(contentType, q) ==
  SelectSeq([e \in 1..Len(store[contentType]) |-> store[contentType][e].doc],
            LAMBDA d : /\ Satisfies(d, q)
                       /\ q.locale \notin {Undefined, ""} =>
                            Get(d, "locale") = q.locale \/ Untagged(d))

\* the returned documents are documents of the collection
FromCollection(c) ==
  \A r \in 1..Len(c.ret) :
    \E e \in 1..Len(store[c.contentType]) : store[c.contentType][e].doc = c.ret[r]

\* C18 as stated (findMany selection): findMany returns only documents of
\* the addressed collection that satisfy every filter and, for a query with
\* a locale, carry that locale; findFirst returns the first document that
\* findMany returns for the same parameters, or nothing when findMany
\* returns none.
C18_AsStated ==
  \A j \in Direct({"findMany", "findFirst"}) :
    LET c == calls[j]
        same == findMany(store, c.contentType, c.params)
    IN  /\ FromCollection(c)
        /\ \A r \in 1..Len(c.ret) :
             /\ Satisfies(c.ret[r], c.params)
             /\ c.params.locale \notin {Undefined, ""} =>
                  Get(c.ret[r], "locale") = c.params.locale
        /\ c.op = "findFirst" =>
             c.ret = IF Len(same) = 0 THEN <<>> ELSE <<same[1]>>

\* C18 (findMany selection): findMany returns only documents of the
\* addressed collection that satisfy every equality filter, in either form,
\* and, for a query with a non-empty locale, that carry that locale or no
\* locale; findFirst disregards the pagination of its parameters and returns
\* the first document in store order that the filters and the locale select,
\* or nothing when there is none.
C18_Selection ==
  \A j \in Direct({"findMany", "findFirst"}) :
    LET c == calls[j]
        matching == Matches(c.contentType, c.params)
    IN  /\ FromCollection(c)
        /\ \A r \in 1..Len(c.ret) :
             \E m \in 1..Len(matching) : matching[m] = c.ret[r]
        /\ c.op = "findFirst" =>
             c.ret = IF Len(matching) = 0 THEN <<>> ELSE <<matching[1]>>

\* C18 witness: a query for locale ja with a filter returned a document
\* without a locale while a document that fails the filter is stored, and
\* findFirst asked for page 2 returned the first match
C18_Witness ==
  \E j, f \in Direct({"findMany", "findFirst"}) :
    /\ calls[j].op = "findMany"
    /\ calls[j].params.locale = "ja"
    /\ DOMAIN calls[j].params.filters # {}
    /\ \E r \in 1..Len(calls[j].ret) : Untagged(calls[j].ret[r])
    /\ \E e \in 1..Len(store[CT]) : ~Satisfies(store[CT][e].doc, calls[j].params)
    /\ calls[f].op = "findFirst"
    /\ calls[f].params.pagination.page = 2
    /\ calls[f].ret # <<>>

\* the direct findMany calls, in the order they were made
PageReads ==
  LET reads == Direct({"findMany"})
  IN  [k \in 1..Cardinality(reads) |->
         CHOOSE j \in reads : Cardinality({ i \in reads : i <= j }) = k]

RECURSIVE Concat(_, _)
\* the returned pages 1..k, one after the other
Concat(pages, k) ==
  IF k = 0 THEN <<>> ELSE Concat(pages, k - 1) \o calls[pages[k]].ret

\* C19 (repository paging): over an unmutated collection and for fixed
\* filters, locale and pageSize, page k holds at most pageSize documents and
\* is the k-th run of pageSize consecutive positions of the sequence of the
\* matching documents; once a page came back short, the pages read hold every
\* matching document at exactly one position.
C19_Paging ==
  LET q == request.options
      size == q.pagination.pageSize
      matching == Matches(CT, q)
      pages == PageReads
  IN  q.pagination.on =>
        /\ \A k \in 1..Len(pages) :
             LET c == calls[pages[k]]
             IN  /\ c.params = [q EXCEPT !.pagination.page = k]
                 /\ Len(c.ret) <= size
                 /\ \A r \in 1..Len(c.ret) :
                      /\ (k - 1) * size + r <= Len(matching)
                      /\ c.ret[r] = matching[(k - 1) * size + r]
                 /\ Len(c.ret) < size => k * size >= Len(matching)
        /\ PagesDone => Concat(pages, Len(pages)) = matching

\* C19 witness: a filtered query read in pages of two came back as a full
\* page and a non-empty short one, a stored document not matching
C19_Witness ==
  /\ request.options.pagination.on
  /\ request.options.pagination.pageSize = 2
  /\ request.options.locale = "ja"
  /\ PagesDone
  /\ Len(PageReads) = 2
  /\ Len(calls[PageReads[2]].ret) = 1
  /\ Len(store[CT]) > 3

\* ------------------------------------------------------------------------
\* Claims about the registry (SpecRegistry)
\* ------------------------------------------------------------------------

\* the character is a capital letter
Capital(ch) == \E n \in 1..Len(UpperCase) : UpperCase[n] = ch

\* b is a, or the small letter of the capital a
SmallOf(a, b) ==
  \/ a = b /\ ~Capital(a)
  \/ \E n \in 1..Len(UpperCase) : UpperCase[n] = a /\ LowerCase[n] = b

\* the string has no capital letter and no white space at either end
Normal(text) ==
  /\ \A i \in 1..Len(text) : ~Capital(text[i])
  /\ Len(text) > 0 => text[1] \notin WhiteSpace /\ text[Len(text)] \notin WhiteSpace

\* the declaration is the token with its capitals made small and the white
\* space around it removed
Asks(token, declared) ==
  /\ Normal(declared)
  /\ \E before \in 0..Len(token) :
       /\ before + Len(declared) <= Len(token)
       /\ \A i \in 1..Len(token) :
            IF i <= before \/ i > before + Len(declared)
              THEN token[i] \in WhiteSpace
              ELSE SmallOf(token[i], declared[i - before])

\* the MIME types and file extensions a strategy declares
Declared(strategy) ==
  IF "mimeTypes" \in DOMAIN strategy
    THEN { strategy.mimeTypes[i] : i \in 1..Len(strategy.mimeTypes) }
           \cup { strategy.fileExtensions[i] : i \in 1..Len(strategy.fileExtensions) }
    ELSE {strategy.mimeType, strategy.fileExtension}

\* the positions of the registered strategies that declare what the token
\* normalizes to
Declaring(r) ==
  { k \in 1..Len(r.among) : \E d \in Declared(r.among[k]) : Asks(r.token, d) }

\* the call returned the first registered strategy declaring the normalized
\* token, or nothing when there is none
FirstDeclaring(r) ==
  IF Declaring(r) = {}
    THEN r.strategy = <<>>
    ELSE r.strategy =
           <<r.among[CHOOSE k \in Declaring(r) : \A h \in Declaring(r) : k <= h]>>

\* C20 as stated (registry resolution): resolveImport and resolveExport
\* return the first registered strategy that declares the lowercased and
\* trimmed token, or nothing when none does; and a token that is a MIME type
\* or extension declared by a registered strategy resolves to some strategy.
C20_AsStated ==
  \A n \in 1..Len(resolved) :
    /\ FirstDeclaring(resolved[n])
    /\ (\E k \in 1..Len(resolved[n].among) :
          resolved[n].token \in Declared(resolved[n].among[k]))
         => resolved[n].strategy # <<>>

\* C20 (registry resolution): resolveImport and resolveExport return the
\* first registered strategy one of whose declared MIME types or extensions
\* is the lowercased and trimmed token, or nothing when none is; a
\* declaration with a capital letter or with white space at an end is never
\* matched, and a token that is a MIME type or extension declared by a
\* registered strategy in small letters and without white space around it
\* resolves to some strategy.
C20_Resolution ==
  \A n \in 1..Len(resolved) :
    /\ FirstDeclaring(resolved[n])
    /\ (\E k \in 1..Len(resolved[n].among) :
          /\ resolved[n].token \in Declared(resolved[n].among[k])
          /\ Normal(resolved[n].token))
         => resolved[n].strategy # <<>>

\* C20 witness: with two import strategies registered that both declare the
\* csv extension, the token CSV after a line break resolved to the one
\* registered first
C20_Witness ==
  /\ resolved # <<>>
  /\ resolved[1].kind = "import"
  /\ resolved[1].token = <<"\n">> \o toUpperCase(Csv)
  /\ Len(resolved[1].among) = 2
  /\ resolved[1].among[1].name = "TsvImportStrategy"
  /\ resolved[1].among[2] = CsvImportStrategy
  /\ resolved[1].strategy = <<resolved[1].among[1]>>

\* the first list is the beginning of the second
PrefixOf(short, long) ==
  /\ Len(short) <= Len(long)
  /\ \A k \in 1..Len(short) : long[k] = short[k]

\* C21 (registry priority is stable): every step only appends to the lists
\* of registered strategies, and a step that registers an import strategy
\* leaves the export strategies as they are and the other way round; a token
\* that has resolved to a strategy resolves to that same strategy on the
\* list as it is after any later registrations, of which the list it was
\* resolved on is the beginning.
C21_StablePriority ==
  /\ [][/\ PrefixOf(importStrategies, importStrategies')
        /\ PrefixOf(exportStrategies, exportStrategies')
        /\ importStrategies' # importStrategies => exportStrategies' = exportStrategies
        /\ exportStrategies' # exportStrategies => importStrategies' = importStrategies]_vars
  /\ [](\A n \in 1..Len(resolved) :
          LET r == resolved[n]
          IN  IF r.kind = "import"
                THEN /\ PrefixOf(r.among, importStrategies)
                     /\ r.strategy # <<>> =>
                          resolveImport(importStrategies, r.token) = r.strategy
                ELSE /\ PrefixOf(r.among, exportStrategies)
                     /\ r.strategy # <<>> =>
                          resolveExport(exportStrategies, r.token) = r.strategy)

\* C21 witness: the csv extension resolved to the strategy registered first,
\* after that the CSV import strategy and an export strategy were
\* registered, and the token still resolves to the same strategy
C21_Witness ==
  /\ resolved # <<>>
  /\ resolved[1].kind = "import"
  /\ resolved[1].token = Csv
  /\ Len(resolved[1].among) = 1
  /\ resolved[1].strategy # <<>>
  /\ resolved[1].strategy[1].name = "TsvImportStrategy"
  /\ Len(importStrategies) = 2
  /\ importStrategies[2] = CsvImportStrategy
  /\ Len(exportStrategies) = 1
  /\ resolveImport(importStrategies, Csv) = resolved[1].strategy

\* ------------------------------------------------------------------------
\* Claims about the options that reach the repository
\* ------------------------------------------------------------------------

\* C22 (locale propagation): every create and update call of an import
\* carries the import's options.locale as its locale argument and every
\* findFirst of an import carries it as the locale of its parameters; every
\* findMany of an export carries the export's options.locale in its
\* parameters; without a locale in the options the argument is undefined.
C22_LocalePropagation ==
  \A j \in 1..Len(calls) :
    IF calls[j].by = "export"
      THEN /\ calls[j].op = "findMany"
           /\ calls[j].params.locale = exp.options.locale
      ELSE LET in == ImportOf(calls[j].by, calls[j].run)
           IN  /\ calls[j].op \in {"create", "update"} =>
                    calls[j].locale = in.options.locale
               /\ calls[j].op = "findFirst" =>
                    calls[j].params.locale = in.options.locale

\* C22 witness: with locale ja, an import has looked up and created, the
\* export has fetched, and the import of the exported file has updated
C22_Witness ==
  /\ \E j \in 1..Len(calls) :
       calls[j].op = "findFirst" /\ calls[j].ok /\ calls[j].params.locale = "ja"
  /\ \E j \in 1..Len(calls) :
       calls[j].op = "create" /\ calls[j].ok /\ calls[j].locale = "ja"
  /\ \E j \in 1..Len(calls) :
       calls[j].op = "findMany" /\ calls[j].ok /\ calls[j].params.locale = "ja"
  /\ \E j \in 1..Len(calls) :
       calls[j].op = "update" /\ calls[j].ok /\ calls[j].locale = "ja"

\* ------------------------------------------------------------------------
\* Claims about the controller (SpecController)
\* ------------------------------------------------------------------------

\* the controller has answered the import with a success response
ImportAnswered == ctx.endpoint = "import" /\ ctx.response.status # 0

\* C23 (import HTTP status): an import whose service call resolved is
\* answered; the answer to an ImportResult with failed = 0 has status 200 and
\* no errors list, and the answer to one with failed > 0 and at least one
\* record created, updated or skipped has status 207 and carries the errors
\* list of the result.
C23_ImportStatus ==
  /\ ctx.endpoint = "import" /\ ctx.pc = "done" /\ Len(returned) = 1 => ImportAnswered
  /\ ImportAnswered =>
       /\ Len(returned) = 1
       /\ LET result == returned[1].result
              answer == ctx.response
          IN  /\ result.failed = 0 =>
                   answer.status = 200 /\ answer.body[1].errors = <<>>
              /\ result.failed > 0 /\ result.created + result.updated + result.skipped > 0 =>
                   /\ answer.status = 207
                   /\ answer.body[1].errors = <<result.errors>>
                   /\ Len(result.errors) > 0

\* C23 witness: an import of two rows, one created and one failed, was
\* answered with 207
C23_Witness ==
  /\ ImportAnswered
  /\ ctx.response.status = 207
  /\ returned[1].result.created = 1
  /\ returned[1].result.failed = 1

\* the request names no content type: the query has none or an empty one,
\* and without one in the query the body has no string for it
NoContentType ==
  LET q == Get(ctx.query, "contentType")
      b == Get(ctx.body, "contentType")
  IN  \/ q = ""
      \/ q = Undefined /\ (b = Undefined \/ b = Num("10") \/ b = "")

\* the value of the first of the form fields files, file and csv that the
\* upload has, as a set of at most one value
FormField ==
  LET has == { f \in {"files", "file", "csv"} : f \in DOMAIN ctx.files.fields }
  IN  IF "files" \in has THEN {ctx.files.fields["files"]}
      ELSE IF "file" \in has THEN {ctx.files.fields["file"]}
      ELSE IF "csv" \in has THEN {ctx.files.fields["csv"]}
      ELSE {}

\* the request failed to bring a file the import accepts: none uploaded, a
\* type that is not allowed, more than 10 MiB, or unreadable
NoAcceptableFile ==
  \/ ~ctx.files.present
  \/ FormField = {}
  \/ \E field \in FormField :
       \/ field.items = <<>>
       \/ field.items # <<>> /\
            LET file == field.items[1]
            IN  \/ file.mimetype \notin {"text/csv", "application/csv",
                                         "application/octet-stream"}
                \/ file.size > 10485760
                \/ ~file.readable

\* the request fails validation
Invalid ==
  \/ ctx.endpoint \in {"import", "export"} /\ NoContentType
  \/ ctx.endpoint = "import" /\ NoAcceptableFile

\* the core was not invoked and the store is as it was seeded
CoreUntouched ==
  /\ \A p \in Procs : imp[p].pc = "idle"
  /\ exp.pc = "idle"
  /\ returned = <<>>
  /\ calls = <<>>
  /\ clock = 0
  /\ idCounter = Len(store[CT])
  /\ store[OtherCT] = <<>>
  /\ \A e \in 1..Len(store[CT]) : store[CT][e].key = SeededId(e)

\* C24 (validation precedes core invocation): a request that fails
\* validation is answered by ctx.badRequest and by nothing else, neither
\* importCsv nor exportCsv having been called and the store being untouched.
C24_ValidationFirst ==
  Invalid =>
    /\ CoreUntouched
    /\ ctx.response = NoResponse
    /\ ctx.thrown = <<>>
    /\ logged = <<>>
    /\ ctx.pc \in {"received", "done"}
    /\ ctx.pc = "done" => ctx.badRequest # <<>>

\* C24 witness: an import of a readable CSV file one byte above 10 MiB into
\* a seeded collection was answered with a bad request
C24_Witness ==
  /\ ctx.endpoint = "import"
  /\ ctx.pc = "done"
  /\ ctx.badRequest # <<>>
  /\ ~NoContentType
  /\ \E field \in FormField :
       /\ field.items # <<>>
       /\ field.items[1].size = 10485761
       /\ field.items[1].mimetype = "text/csv"
       /\ field.items[1].readable
  /\ Len(store[CT]) = 2

\* C25 as stated (service failure mapping): when importCsv or exportCsv has
\* rejected, logger.error was called once, with '[csv-io] Import failed:'
\* (for an export '[csv-io] Export failed:') and the error, the request
\* failed with status 500 and no success response was built.
C25_AsStated ==
  ctx.thrown # <<>> =>
    /\ ctx.thrown[1].status = 500
    /\ ctx.response = NoResponse
    /\ Len(logged) = 1
    /\ logged[1].message = IF ctx.endpoint = "import"
                             THEN "[csv-io] Import failed:"
                             ELSE "[csv-io] Export failed:"

\* ------------------------------------------------------------------------
\* Claims about the store under sequential imports (Spec)
\* ------------------------------------------------------------------------

\* C26 as stated (upsert key uniqueness): while and after one caller imports
\* into the empty collection with an idField, file after file with the same
\* options, no two documents of the collection carry the same non-empty
\* value of the idField.
C26_AsStated ==
  LET idField == request.options.idField
      docs == store[request.options.contentType]
  IN  Truthy(idField) =>
        \A d, e \in 1..Len(docs) :
          (/\ Get(docs[d].doc, idField) \notin {Undefined, Null, ""}
           /\ Get(docs[d].doc, idField) = Get(docs[e].doc, idField)) => d = e

\* the keys under which a list of entries holds its documents
HeldKeys(entries) == { entries[k].key : k \in 1..Len(entries) }

\* the keys of the documents the successful create calls of an import returned
CreatedKeys(by, run) ==
  { calls[j].ret[1].documentId :
      j \in { w \in CallsOf(by, run) : calls[w].op = "create" /\ calls[w].ok } }

\* the rows of an import for which a write call succeeded
WrittenRows(by, run) ==
  { calls[j].row :
      j \in { w \in CallsOf(by, run) : calls[w].op \in {"create", "update"} /\ calls[w].ok } }

\* the counters of an import with result `result`, begun on store `before`,
\* agree with the store `now`
Accounted(by, run, options, result, before, now) ==
  LET ct == options.contentType
  IN  /\ Len(now[ct]) = Len(before[ct]) + result.created
      /\ HeldKeys(now[ct]) \ HeldKeys(before[ct]) = CreatedKeys(by, run)
      /\ HeldKeys(before[ct]) \subseteq HeldKeys(now[ct])
      /\ \A other \in (DOMAIN now) \ {ct} : now[other] = before[other]
      /\ \A e \in 1..Len(result.errors) :
           result.errors[e].row \notin WrittenRows(by, run)

C27_Accounted ==
  /\ \A n \in 1..Len(returned) :
       LET r == returned[n]
       IN  Accounted(r.by, r.run, r.options, r.result, r.before, r.after)
  /\ \A p \in Procs :
       imp[p].pc # "idle" =>
         Accounted(p, imp[p].run, imp[p].options, imp[p].result, imp[p].before, store)

C27_FailureKeepsWrites ==
  /\ \A p \in Procs :
       (imp[p].pc # "idle" /\ imp'[p].pc # "idle"
          /\ imp'[p].result.failed > imp[p].result.failed) => store' = store
  /\ \A ct \in DOMAIN store :
       /\ Len(store'[ct]) >= Len(store[ct])
       /\ \A k \in 1..Len(store[ct]) : store'[ct][k].key = store[ct][k].key

\* C27 (counters match store effects): with one caller importing into the
\* in-memory repository, at the return of every import (and at every point
\* inside it) the collection holds as many documents as before the import
\* plus result.created, the new documents being those its successful create
\* calls returned; no write call succeeded for a row listed in errors; and
\* the step that counts a row as failed leaves the store as it is, no
\* document ever leaving the store or its position.
C27_CountersMatchStore == []C27_Accounted /\ [][C27_FailureKeepsWrites]_vars

\* C27 witness: an import of two records has returned, its first record
\* created and kept in the collection, its second record failed
C27_Witness ==
  \E n \in 1..Len(returned) :
    LET r == returned[n]
    IN  /\ r.result.created = 1
        /\ Len(r.result.errors) = 1
        /\ r.result.errors[1].row = 1
        /\ Len(r.after[r.options.contentType]) = Len(r.before[r.options.contentType]) + 1
        /\ CreatedKeys(r.by, r.run) \subseteq HeldKeys(store[r.options.contentType])

\* the row indexes listed in the errors of a result
ErrorRows(result) == { result.errors[e].row : e \in 1..Len(result.errors) }

\* the errors of `result` are consistent for an import of caller `by` that
\* has finished the records 0..done-1
Listed(by, run, result, done) ==
  /\ Len(result.errors) = result.failed
  /\ ErrorRows(result) \subseteq 0..(done - 1)
  /\ \A e, f \in 1..Len(result.errors) :
       result.errors[e].row = result.errors[f].row => e = f
  /\ \A k \in 0..(done - 1) : k \in ErrorRows(result) <=> k \notin WrittenRows(by, run)
  /\ result.created + result.updated = Cardinality(WrittenRows(by, run))

FetchRejected ==
  \E j \in 1..Len(calls) : calls[j].by = "export" /\ ~calls[j].ok

\* C29 (export termination): over a seeded collection that nothing mutates,
\* an export whose fetch loop has started eventually has received a short
\* page and returned a result, unless a findMany call was rejected; the
\* loop does not run forever.
C29_ExportTerminates ==
  (exp.pc = "fetch") ~>
    \/ /\ exp.pc = "returned"
       /\ exp.result # <<>>
       /\ LastPage(calls[Len(calls)].ret)
    \/ FetchRejected

\* C29 witness: an export of a collection of exactly MaxPages full pages has
\* returned after the empty page that follows them, no call having failed
C29_Witness ==
  /\ exp.pc = "returned"
  /\ exp.result # <<>>
  /\ ~FetchRejected
  /\ Len(calls) = MaxPages + 1
  /\ Len(exp.collected) = MaxPages * PAGE_SIZE
  /\ calls[Len(calls)].ret = <<>>

\* ------------------------------------------------------------------------
\* An export interleaved with an import: one caller imports a file into a
\* seeded collection of more than one page while another request exports
\* the collection; the awaits of the two interleave
\* ------------------------------------------------------------------------

\* the imported files: a row that re-tags the first seeded document with
\* the locale ja, one that re-tags the second with en, one that only
\* changes a title, one of a new key
InterleavedFiles ==
  { <<Row([title |-> "X", slug |-> "article-1", locale |-> "ja"])>>,
    <<Row([title |-> "X", slug |-> "article-2", locale |-> "en"])>>,
    <<Row([title |-> "X", slug |-> "article-2"])>>,
    <<Row([title |-> "N", slug |-> "new"])>> }

InterleavedImportOptions ==
  [contentType : {CT}, locale : {Undefined}, idField : {"slug"}, excludeFields : {{}}]

InterleavedExportOptions ==
  [contentType : {CT}, locale : {Undefined, "ja"}, idField : {Undefined},
   excludeFields : {{}}]

\* collection sizes whose ja-selected documents fill one page exactly, or
\* one page and one document
InterleavedSizes == {PAGE_SIZE + 2, PAGE_SIZE + 3}

\* export() is called with its own options while the import may be under
\* way; the collection at that moment is remembered
exportRequest ==
  /\ exp.pc = "idle"
  /\ \E options \in InterleavedExportOptions :
       exp' = [pc |-> "fetch", options |-> options, page |-> 1, collected |-> <<>>,
               formats |-> 0, result |-> <<>>, error |-> "",
               before |-> store[options.contentType]]
  /\ UNCHANGED <<store, idCounter, clock, request, imp, returned, calls,
                 registryVars, controllerVars>>

InitInterleaved ==
  /\ \E n \in InterleavedSizes :
       /\ store = [EmptyStore EXCEPT ![CT] = seed(n, "mixed")]
       /\ idCounter = n
  /\ clock = 0
  /\ request \in [rawData : InterleavedFiles, options : InterleavedImportOptions]
  /\ imp = [p \in Procs |-> IdleImport]
  /\ returned = <<>>
  /\ calls = <<>>
  /\ exp = IdleExport
  /\ EmptyRegistry
  /\ NoRequest

NextInterleaved ==
  \/ returned = <<>> /\ importStep("A")
  \/ exportRequest
  \/ exportFetch
  \/ exportFormat

SpecInterleaved == InitInterleaved /\ [][NextInterleaved]_vars

\* the documentIds of a sequence of documents
IdsOf(docs) == { docs[k].documentId : k \in 1..Len(docs) }

\* the documents accumulated by the export hold no documentId twice
NoDuplicates == Cardinality(IdsOf(exp.collected)) = Len(exp.collected)

\* the documents the collection held when the export was called and that
\* the export's locale selected then
SelectedBefore ==
  SelectSeq(Values(exp.before),
            LAMBDA d : \/ exp.options.locale \in {Undefined, Null, ""}
                       \/ MatchesLocale(d, exp.options.locale))

\* C30 as stated (export interleaved with imports): while an export's page
\* fetches interleave with the create and update calls of an import on the
\* same collection, the documents accumulated by the export never contain
\* the same documentId twice, and once its last page is fetched every
\* document that existed before its first fetch is among them (of these
\* only the documents the export's locale selected when it was called are
\* asked for here).
C30_AsStated ==
  exp.pc # "idle" =>
    /\ NoDuplicates
    /\ Fetched => IdsOf(SelectedBefore) \subseteq IdsOf(exp.collected)

====
